---- MODULE Spec2Model ----
(***************************************************************************)
(* Model of auto-rewrite-commit: the similarity clustering engine          *)
(* (src/src/clustering.py, src/src/utils.py), the SQLite state store       *)
(* (src/src/database.py, src/src/state_manager.py) and the rewrite         *)
(* orchestrator (src/src/executor.py) working on a git repository          *)
(* (src/src/git_operations.py).                                            *)
(*                                                                         *)
(* Two specifications share the variables:                                 *)
(*   SpecCluster  one call of CommitClusterer.analyze_similarity on an     *)
(*                arbitrary commit list and hash mapping;                  *)
(*   Spec         invocations of RewriteExecutor.run (dry-run or apply)    *)
(*                on a linear history, step by step, with interruption.    *)
(***************************************************************************)
EXTENDS Integers, Sequences, FiniteSets, TLC

\* ------------------------------------------------------------------ bounds
MaxLen == 3          \* commits in a clustering input (SpecCluster)
MaxGroup == 2        \* largest max_group_size tried (SpecCluster)
NumCommits == 2      \* commits on the branch before the first run (Spec)
MaxRuns == 2         \* invocations of run() in one behaviour (Spec)
MaxConflicts == 1    \* cherry-pick conflicts in one behaviour (Spec)

Dates == {1, 2}      \* commit_date values of the original commits

\* ------------------------------------------------------- program constants
DefaultMaxGroupSize == 10     \* clustering.max_group_size
ThresholdNum == 4             \* clustering.similarity_threshold = 0.8 = 4/5
ThresholdDen == 5

None == 0            \* Python None for a hash (hashes are positive)
NoRef == [kind |-> "none", id |-> 0]
NoSession == [exists |-> FALSE, branch |-> NoRef, backup_branch |-> NoRef,
              current_position |-> None, total_commits |-> 0, processed_commits |-> 0]

\* ----------------------------------------------------------- diff universe
\* A diff text is a sequence of lines, a line a sequence of words.  The empty
\* string is <<>>; a whitespace-only line is the empty line <<>>.
DiffNames == {"dA", "dAU", "dB", "dEmpty"}

DiffLines(d) ==
  CASE d = "dA"     -> << <<"@@", "-1", "+1", "@@">>, <<"+foo">> >>
    [] d = "dAU"    -> << <<"@@", "-1", "+1", "@@">>, <<"+FOO">> >>
    [] d = "dB"     -> << <<"@@", "-2", "+2", "@@">>, <<"+bar">>, <<"+baz">> >>
    [] d = "dEmpty" -> << >>

\* modified_files is a JSON string: a list of paths (a path is its sequence
\* of components) or a string json.loads rejects.
FileNames == {"fSrc", "fHalf", "fDoc", "fNone", "fBad"}

FileJson(f) ==
  CASE f = "fSrc" -> [ok |-> TRUE,  list |-> << <<"src", "a.py">>, <<"src", "b.py">> >>]
    [] f = "fHalf" -> [ok |-> TRUE, list |-> << <<"src", "a.py">>, <<"docs", "x.md">> >>]
    [] f = "fDoc" -> [ok |-> TRUE,  list |-> << <<"README.md">> >>]
    [] f = "fNone" -> [ok |-> TRUE, list |-> << >>]
    [] f = "fBad" -> [ok |-> FALSE, list |-> << >>]

Range(s) == {s[i] : i \in 1..Len(s)}

\* utils.safe_json_loads(data, [])
safe_json_loads(f) == IF FileJson(f).ok THEN FileJson(f).list ELSE << >>

\* os.path.dirname
dirname(p) == SubSeq(p, 1, Len(p) - 1)

\* str.lower() on a word
lower(w) == IF w = "+FOO" THEN "+foo" ELSE w

\* A similarity score is a fraction [n, d] with d > 0.
Frac(n, d) == [n |-> n, d |-> d]
One == Frac(1, 1)
Zero == Frac(0, 1)

Jaccard(S, T) ==
  IF Cardinality(S \cup T) > 0
    THEN Frac(Cardinality(S \cap T), Cardinality(S \cup T))
    ELSE Zero

\* a variant of the path score that divides by the directories of the first
\* list alone
calculate_path_containment(paths1, paths2) ==
  IF paths1 = << >> \/ paths2 = << >> THEN Zero
  ELSE LET dirs1 == {dirname(p) : p \in Range(paths1)}
           dirs2 == {dirname(p) : p \in Range(paths2)}
       IN Frac(Cardinality(dirs1 \cap dirs2), Cardinality(dirs1))

\* utils.calculate_path_similarity
calculate_path_similarity(paths1, paths2) ==
  IF paths1 = << >> \/ paths2 = << >> THEN Zero
  ELSE LET dirs1 == {dirname(p) : p \in Range(paths1)}
           dirs2 == {dirname(p) : p \in Range(paths2)}
       IN IF dirs1 = {} /\ dirs2 = {} THEN One ELSE Jaccard(dirs1, dirs2)

Words(text) == UNION {{lower(l[i]) : i \in 1..Len(l)} : l \in Range(text)}

\* utils.calculate_text_similarity
calculate_text_similarity(text1, text2) ==
  IF text1 = << >> \/ text2 = << >> THEN Zero
  ELSE IF Words(text1) = {} /\ Words(text2) = {} THEN One
  ELSE Jaccard(Words(text1), Words(text2))

HeaderPrefixes == {"+++", "---", "@@"}

\* the lines kept by the filter of _calculate_line_similarity
KeptLines(text) ==
  {l \in Range(text) : l # << >> /\ l[1] \notin HeaderPrefixes}

\* CommitClusterer._calculate_line_similarity
calculate_line_similarity(diff1, diff2) ==
  IF KeptLines(diff1) = {} /\ KeptLines(diff2) = {} THEN One
  ELSE Jaccard(KeptLines(diff1), KeptLines(diff2))

\* (a + b) / 2 on fractions
Half(a, b) == Frac(a.n * b.d + b.n * a.d, 2 * a.d * b.d)

\* CommitClusterer._calculate_diff_content_similarity
calculate_diff_content_similarity(diff1, diff2) ==
  IF diff1 = << >> \/ diff2 = << >> THEN Zero
  ELSE Half(calculate_text_similarity(diff1, diff2),
            calculate_line_similarity(diff1, diff2))

\* CommitClusterer._calculate_diff_similarity: 0.4 * path + 0.6 * diff
calculate_diff_similarity(d1, d2, f1, f2) ==
  LET p == calculate_path_similarity(safe_json_loads(f1), safe_json_loads(f2))
      q == calculate_diff_content_similarity(DiffLines(d1), DiffLines(d2))
  IN Frac(4 * p.n * q.d + 6 * q.n * p.d, 10 * p.d * q.d)

\* a variant of the comparison that also accepts equality
AtOrAboveThreshold(s, tn, td) == s.n * td >= tn * s.d

\* similarity > self.threshold
AboveThreshold(s, tn, td) == s.n * td > tn * s.d

\* ---------------------------------------------------------------- clustering
\* sorted(commits, key=lambda x: x['commit_date']): a stable sort
RECURSIVE InsertByDate(_, _)
InsertByDate(sorted, c) ==
  IF sorted = << >> THEN <<c>>
  ELSE IF sorted[Len(sorted)].commit_date <= c.commit_date THEN Append(sorted, c)
  ELSE Append(InsertByDate(SubSeq(sorted, 1, Len(sorted) - 1), c), sorted[Len(sorted)])

RECURSIVE SortByDateUpTo(_, _)
SortByDateUpTo(s, k) ==
  IF k = 0 THEN << >> ELSE InsertByDate(SortByDateUpTo(s, k - 1), s[k])

SortByDate(s) == SortByDateUpTo(s, Len(s))

\* a variant of _is_continuous that only asks whether commit A has a parent
is_continuous_any_parent(commit_a, commit_b, mapping) == commit_a.parent_hash # None

\* a variant of _is_continuous that takes a commit without a parent to be
\* continuous with any commit
is_continuous_or_root(commit_a, commit_b, mapping) ==
  IF commit_a.parent_hash = None THEN TRUE
  ELSE LET b_hash == IF commit_b.hash \in DOMAIN mapping
                       THEN mapping[commit_b.hash] ELSE commit_b.hash
       IN commit_a.parent_hash = b_hash

\* CommitClusterer._is_continuous(commit_a, commit_b)
is_continuous(commit_a, commit_b, mapping) ==
  IF commit_a.parent_hash = None THEN FALSE
  ELSE LET b_hash == IF commit_b.hash \in DOMAIN mapping
                       THEN mapping[commit_b.hash] ELSE commit_b.hash
       IN commit_a.parent_hash = b_hash

Similar(c, g) ==
  AboveThreshold(calculate_diff_similarity(c.diff_content, g.diff_content,
                                           c.modified_files, g.modified_files),
                 ThresholdNum, ThresholdDen)

\* a variant of the loop body that does not yield the group a dissimilar
\* commit closes
FindGroupsStepNoYield(st, commit, mapping, mgs) ==
  LET group == st.group
      last == group[Len(group)]
  IN IF ~is_continuous(commit, last, mapping)
       THEN [done |-> Append(st.done, group), group |-> <<commit>>]
     ELSE IF Len(group) >= mgs
       THEN [done |-> Append(st.done, group), group |-> <<commit>>]
     ELSE IF Similar(commit, last)
       THEN [done |-> st.done, group |-> Append(group, commit)]
     ELSE [done |-> st.done, group |-> <<commit>>]

\* a variant of the loop body that closes the group when its last member is
\* a root commit
FindGroupsStepRootAlone(st, commit, mapping, mgs) ==
  LET group == st.group
      last == group[Len(group)]
  IN IF ~is_continuous(commit, last, mapping) \/ last.parent_hash = None
       THEN [done |-> Append(st.done, group), group |-> <<commit>>]
     ELSE IF Len(group) >= mgs
       THEN [done |-> Append(st.done, group), group |-> <<commit>>]
     ELSE IF Similar(commit, last)
       THEN [done |-> st.done, group |-> Append(group, commit)]
     ELSE [done |-> Append(st.done, group), group |-> <<commit>>]

\* one iteration of the loop of _find_groups: st = [done, group]
FindGroupsStep(st, commit, mapping, mgs) ==
  LET group == st.group
      last == group[Len(group)]
  IN IF ~is_continuous(commit, last, mapping)
       THEN [done |-> Append(st.done, group), group |-> <<commit>>]
     ELSE IF Len(group) >= mgs
       THEN [done |-> Append(st.done, group), group |-> <<commit>>]
     ELSE IF Similar(commit, last)
       THEN [done |-> st.done, group |-> Append(group, commit)]
     ELSE [done |-> Append(st.done, group), group |-> <<commit>>]

RECURSIVE FindGroupsUpTo(_, _, _, _)
FindGroupsUpTo(commits, k, mapping, mgs) ==
  IF k = 1 THEN [done |-> << >>, group |-> <<commits[1]>>]
  ELSE FindGroupsStep(FindGroupsUpTo(commits, k - 1, mapping, mgs),
                      commits[k], mapping, mgs)

\* CommitClusterer._find_groups(commits), the list of the yielded groups
find_groups(commits, mapping, mgs) ==
  IF commits = << >> THEN << >>
  ELSE LET st == FindGroupsUpTo(commits, Len(commits), mapping, mgs)
       IN Append(st.done, st.group)

\* CommitClusterer._calculate_group_similarities(group)
calculate_group_similarities(group) ==
  [i \in 1..Len(group) |->
     IF i = 1 THEN One
     ELSE calculate_diff_similarity(group[i].diff_content, group[i-1].diff_content,
                                    group[i].modified_files, group[i-1].modified_files)]

\* a variant of validate_groups that checks continuity without the hash mapping
validate_groups_no_mapping(gs, mapping, mgs) ==
  LET OfGroup(i) ==
        LET group == gs[i]
            pairs == [k \in 1..(Len(group) - 1) |-> k + 1]
        IN (IF Len(group) > mgs THEN <<[group |-> i - 1, kind |-> "size"]>> ELSE << >>)
           \o [k \in 1..Len(SelectSeq(pairs, LAMBDA j : ~is_continuous(group[j], group[j-1], << >>)))
                 |-> [group |-> i - 1, kind |-> "continuity"]]
           \o [k \in 1..Len(SelectSeq(pairs, LAMBDA j : ~Similar(group[j], group[j-1])))
                 |-> [group |-> i - 1, kind |-> "similarity"]]
      F[i \in 0..Len(gs)] == IF i = 0 THEN << >> ELSE F[i - 1] \o OfGroup(i)
  IN F[Len(gs)]

\* CommitClusterer.validate_groups(groups): for every group an error when it
\* is larger than max_group_size, one for every member that is not continuous
\* with the member before it, one for every member whose similarity to the
\* member before it is <= threshold
validate_groups(gs, mapping, mgs) ==
  LET OfGroup(i) ==
        LET group == gs[i]
            pairs == [k \in 1..(Len(group) - 1) |-> k + 1]
        IN (IF Len(group) > mgs THEN <<[group |-> i - 1, kind |-> "size"]>> ELSE << >>)
           \o [k \in 1..Len(SelectSeq(pairs, LAMBDA j : ~is_continuous(group[j], group[j-1], mapping)))
                 |-> [group |-> i - 1, kind |-> "continuity"]]
           \o [k \in 1..Len(SelectSeq(pairs, LAMBDA j : ~Similar(group[j], group[j-1])))
                 |-> [group |-> i - 1, kind |-> "similarity"]]
      F[i \in 0..Len(gs)] == IF i = 0 THEN << >> ELSE F[i - 1] \o OfGroup(i)
  IN F[Len(gs)]

\* --------------------------------------------------- commit_groups table
\* rows [group_id, commit_hash, group_order, similarity]; group_id is declared
\* INTEGER PRIMARY KEY, so no two rows share a group_id.
RECURSIVE InsertGroupRows(_, _, _, _, _)
InsertGroupRows(rows, group_id, group, sims, i) ==
  IF i > Len(group) THEN [ok |-> TRUE, rows |-> rows]
  ELSE IF \E r \in rows : r.group_id = group_id
    THEN [ok |-> FALSE, rows |-> rows]      \* sqlite3.IntegrityError
  ELSE InsertGroupRows(rows \cup {[group_id |-> group_id,
                                    commit_hash |-> group[i].hash,
                                    group_order |-> i - 1,
                                    similarity |-> sims[i]]},
                       group_id, group, sims, i + 1)

\* a variant of save_commit_group without the DELETE of the group's old rows
save_commit_group_no_delete(table, group_id, group, sims) ==
  LET ins == InsertGroupRows(table, group_id, group, sims, 1)
  IN IF ins.ok THEN [ok |-> TRUE, table |-> ins.rows]
     ELSE [ok |-> FALSE, table |-> table]

\* DatabaseManager.save_commit_group: one transaction, rolled back when an
\* INSERT raises
save_commit_group(table, group_id, group, sims) ==
  LET deleted == {r \in table : r.group_id # group_id}
      ins == InsertGroupRows(deleted, group_id, group, sims, 1)
  IN IF ins.ok THEN [ok |-> TRUE, table |-> ins.rows]
     ELSE [ok |-> FALSE, table |-> table]

\* the loop "for i, group in enumerate(groups): save_commit_group(i, ...)"
RECURSIVE SaveGroupsFrom(_, _, _)
SaveGroupsFrom(table, groups, i) ==
  IF i > Len(groups) THEN [ok |-> TRUE, table |-> table]
  ELSE LET r == save_commit_group(table, i - 1, groups[i],
                                  calculate_group_similarities(groups[i]))
       IN IF r.ok THEN SaveGroupsFrom(r.table, groups, i + 1)
          ELSE [ok |-> FALSE, table |-> r.table]

\* CommitClusterer.analyze_similarity(commits):
\*   found  the groups _find_groups yields,
\*   ok     FALSE when saving a group raised,
\*   table  the commit_groups table afterwards.
analyze_similarity(cs, mapping, table, mgs) ==
  IF cs = << >> THEN [ok |-> TRUE, found |-> << >>, table |-> table]
  ELSE LET gs == find_groups(SortByDate(cs), mapping, mgs)
           saved == SaveGroupsFrom(table, gs, 1)
       IN [ok |-> saved.ok, found |-> gs, table |-> saved.table]

\* ------------------------------------------------------------------- state
VARIABLES
  \* git repository
  objects,        \* commit objects: hash -> [parent, commit_date, diff_content, modified_files, message]
  refs,           \* ref name -> hash
  head,           \* the checked-out branch (repo.active_branch)
  dirty,          \* repo.is_dirty(): tracked files differ from HEAD
  remote,         \* origin/<branch>: a hash, or None when there is no remote
  \* SQLite state store
  dbCommits,      \* commits table, rows in rowid order
  dbMapping,      \* hash_mapping table: old_hash -> new_hash
  dbGroups,       \* commit_groups table, a set of rows
  dbSession,      \* session_state singleton row, or NoSession
  \* configuration
  autoCreate,     \* backup.auto_create
  disableMerging, \* clustering.disable_merging
  maxGroupSize,   \* clustering.max_group_size
  checkRemoteSync, \* safety.check_remote_sync
  \* the running RewriteExecutor
  pc,             \* position of the process
  dryRun,         \* RewriteExecutor.dry_run
  runs,           \* invocations of run() so far
  path,           \* "fresh", "resume" or "aborted": the branch run() took; "rollback"
  currentState,   \* StateManager._current_state
  backupBranch,   \* backup_branch of _start_new_execution / of rollback
  commits,        \* the commit list handed to clustering
  found,          \* the groups _find_groups yielded in the last pass
  groups,         \* the groups the run works on
  commitMessages, \* commit_messages of _stepwise_rebase_execution
  currentBranch,  \* current_branch of _sequential_rewrite
  tempBranch,     \* temp_branch of _sequential_rewrite
  sortedCommits,  \* sorted_commits of _sequential_rewrite
  idx,            \* loop position in sorted_commits / commit_messages
  errors,         \* errors of _cluster_commits: what validate_groups returned
  \* history of the current run, for stating properties
  start,          \* snapshot taken when run() was entered
  attempted,      \* hashes whose replay was attempted, in order
  skipped,        \* hashes whose replay conflicted and was skipped
  replayedAs,     \* old hash -> hash of the commit its replay created
  conflicts,      \* conflicts so far in the behaviour
  \* one call of AIRewriter._call_ai_with_retry
  aiOutcomes,     \* what the API call of attempt 1, 2, ... does: a text or "error"
  aiPrompt,       \* the words of the prompt
  aiMaxRetries,   \* the parameter max_retries
  aiAttempt,      \* API calls made so far
  aiResult,       \* the value the call returned
  \* one call of CommitClusterer._calculate_diff_similarity
  simArgs,        \* its arguments <<diff1, diff2, files1_str, files2_str>>
  pathSim,        \* its local path_sim
  diffSim,        \* its local diff_sim
  similarity      \* the value the call returned

gitVars == <<objects, refs, head>>
dbVars == <<dbCommits, dbMapping, dbGroups, dbSession>>
cfgVars == <<autoCreate, disableMerging, maxGroupSize, checkRemoteSync>>
treeVars == <<dirty, remote>>
simVars == <<simArgs, pathSim, diffSim, similarity>>
diagVars == <<errors>>
aiVars == <<aiOutcomes, aiPrompt, aiMaxRetries, aiAttempt, aiResult>>
localVars == <<currentState, backupBranch, commits, found, groups, commitMessages,
               currentBranch, tempBranch, sortedCommits, idx>>
histVars == <<start, attempted, skipped, replayedAs, conflicts>>
vars == <<gitVars, treeVars, dbVars, cfgVars, aiVars, simVars, diagVars, pc, dryRun, runs, path, localVars, histVars>>

EmptyFn == [x \in {} |-> 0]

Main == [kind |-> "main", id |-> 0]
TempRef(n) == [kind |-> "temp", id |-> n]
BackupRef(n) == [kind |-> "backup", id |-> n]

NoStart == [taken |-> FALSE, refs |-> EmptyFn, head |-> NoRef, mapping |-> EmptyFn,
            done |-> {}, pending |-> {}, session |-> NoSession,
            valid |-> TRUE, is_dirty |-> FALSE, is_synced |-> TRUE]

\* a commit dict as the scan produces it and the commits table stores it
CommitRecord(h, p, diff, files, date, st) ==
  [hash |-> h, parent_hash |-> p, diff_content |-> diff, modified_files |-> files,
   commit_date |-> date, status |-> st]

Hashes(seq) == [i \in 1..Len(seq) |-> seq[i].hash]
HashesOfGroups(gs) == [i \in 1..Len(gs) |-> Hashes(gs[i])]

RECURSIVE Flatten(_)
Flatten(gs) == IF gs = << >> THEN << >> ELSE Head(gs) \o Flatten(Tail(gs))

\* ------------------------------------------------------------- SpecCluster
\* The inputs of one clustering call: up to MaxLen commits with distinct
\* hashes 1..n in list order, any dates, a parent that is absent, an earlier
\* commit of the list or the rewritten hash of one, and a hash mapping that
\* sends some commits h to their rewritten hash NewOf(h).
NewOf(h) == 100 + h

ClusterContents == {[diff |-> "dA", files |-> "fSrc"], [diff |-> "dA", files |-> "fHalf"],
                    [diff |-> "dB", files |-> "fDoc"]}

ParentChoices(h) == {None} \cup (1..(h - 1)) \cup {NewOf(p) : p \in 1..(h - 1)}

ClusterInputs(maxlen) ==
  UNION {
    {[i \in 1..n |-> CommitRecord(i, par[i], con[i].diff, con[i].files, dat[i], "pending")] :
       par \in {f \in [1..n -> ParentChoices(n)] : \A i \in 1..n : f[i] \in ParentChoices(i)},
       con \in [1..n -> ClusterContents],
       dat \in [1..n -> Dates]}
    : n \in 0..maxlen}

NoText == ""

\* no call of _call_ai_with_retry is under way
InitIdleAi ==
  /\ aiOutcomes = << >>
  /\ aiPrompt = {}
  /\ aiMaxRetries = 0
  /\ aiAttempt = 0
  /\ aiResult = NoText

\* no call of _calculate_diff_similarity is under way
InitIdleSim ==
  /\ simArgs = << >>
  /\ pathSim = Zero
  /\ diffSim = Zero
  /\ similarity = Zero

InitIdleLocals ==
  /\ InitIdleAi
  /\ InitIdleSim
  /\ errors = << >>
  /\ currentState = NoSession
  /\ backupBranch = NoRef
  /\ found = << >>
  /\ groups = << >>
  /\ commitMessages = << >>
  /\ currentBranch = NoRef
  /\ tempBranch = NoRef
  /\ sortedCommits = << >>
  /\ idx = 0
  /\ start = NoStart
  /\ attempted = << >>
  /\ skipped = {}
  /\ replayedAs = EmptyFn
  /\ conflicts = 0

\* what an earlier pass could have left in commit_groups: nothing, or the rows
\* of a pass over MaxLen unrelated commits
PriorInput == [i \in 1..MaxLen |-> CommitRecord(i, None, "dA", "fSrc", 1, "pending")]

PriorTables ==
  {{}, analyze_similarity(PriorInput, EmptyFn, {}, DefaultMaxGroupSize).table}

InitCluster ==
  /\ commits \in ClusterInputs(MaxLen)
  /\ \E S \in SUBSET (1..MaxLen) : dbMapping = [h \in S |-> NewOf(h)]
  /\ maxGroupSize \in 1..MaxGroup
  /\ dbGroups \in PriorTables
  /\ dbCommits = << >>
  /\ dbSession = NoSession
  /\ objects = EmptyFn
  /\ refs = EmptyFn
  /\ head = Main
  /\ autoCreate = TRUE
  /\ checkRemoteSync = FALSE
  /\ dirty = FALSE
  /\ remote = None
  /\ disableMerging = FALSE
  /\ pc = "cluster_call"
  /\ dryRun = TRUE
  /\ runs = 0
  /\ path = "none"
  /\ InitIdleLocals

\* clusterer.analyze_similarity(commits) called on its own
AnalyzeSimilarityCall ==
  /\ pc = "cluster_call"
  /\ LET r == analyze_similarity(commits, dbMapping, dbGroups, maxGroupSize)
     IN /\ found' = r.found
        /\ dbGroups' = r.table
        /\ groups' = IF r.ok THEN r.found ELSE << >>
        /\ pc' = IF r.ok THEN "cluster_returned" ELSE "cluster_raised"
  /\ UNCHANGED <<gitVars, dbCommits, dbMapping, dbSession, cfgVars, simVars, diagVars, treeVars, aiVars, dryRun, runs, path,
                 currentState, backupBranch, commits, commitMessages, currentBranch,
                 tempBranch, sortedCommits, idx, histVars>>

\* clusterer.analyze_similarity(commits) called once more on the same commits,
\* with the state store as the first call left it
AnalyzeSimilarityAgain ==
  /\ pc \in {"cluster_returned", "cluster_raised"}
  /\ LET r == analyze_similarity(commits, dbMapping, dbGroups, maxGroupSize)
     IN /\ found' = r.found
        /\ dbGroups' = r.table
        /\ groups' = IF r.ok THEN r.found ELSE << >>
        /\ pc' = IF r.ok THEN "cluster_again" ELSE "cluster_raised_again"
  /\ UNCHANGED <<gitVars, dbCommits, dbMapping, dbSession, cfgVars, simVars, diagVars, treeVars, aiVars, dryRun, runs, path,
                 currentState, backupBranch, commits, commitMessages, currentBranch,
                 tempBranch, sortedCommits, idx, histVars>>

\* the groupings validate_groups is called on: the groups the last pass
\* found, or the same commits, in date order, put into one group
ValidateInputs == {found, <<SortByDate(commits)>>}

\* clusterer.validate_groups(groups) called on its own after the passes
ValidateGroups ==
  /\ pc \in {"cluster_again", "cluster_raised_again"}
  /\ \E gs \in ValidateInputs :
       /\ groups' = gs
       /\ errors' = validate_groups(gs, dbMapping, maxGroupSize)
  /\ pc' = "validated"
  /\ UNCHANGED <<gitVars, dbVars, cfgVars, simVars, treeVars, aiVars, dryRun, runs, path,
                 currentState, backupBranch, commits, found, commitMessages, currentBranch,
                 tempBranch, sortedCommits, idx, histVars>>

NextCluster ==
  \/ AnalyzeSimilarityCall
  \/ AnalyzeSimilarityAgain
  \/ ValidateGroups

SpecCluster == InitCluster /\ [][NextCluster]_vars

ClusterPassOver ==
  pc \in {"cluster_returned", "cluster_raised", "cluster_again", "cluster_raised_again"}

\* the position <<group, member>> pairs of a list of groups
Positions(gs) == UNION {{<<g, m>> : m \in 1..Len(gs[g])} : g \in 1..Len(gs)}

IsPartitionInDateOrder(gs, input) ==
  /\ \A g \in 1..Len(gs) : gs[g] # << >>
  /\ \A i \in 1..Len(input) :
       Cardinality({q \in Positions(gs) : gs[q[1]][q[2]] = input[i]}) = 1
  /\ \A q \in Positions(gs) : \E i \in 1..Len(input) : gs[q[1]][q[2]] = input[i]
  /\ LET flat == Flatten(gs)
     IN \A j \in 1..(Len(flat) - 1) : flat[j].commit_date <= flat[j + 1].commit_date

\* C1: the groups of a clustering pass partition the input: every input
\* commit is a member of exactly one group, no group holds anything else, and
\* the groups concatenated in order are the input in ascending commit_date.
\* It holds of the groups _find_groups yields and of the groups returned.
C1_GroupsPartitionInput ==
  /\ ClusterPassOver => IsPartitionInDateOrder(found, commits)
  /\ pc = "cluster_returned" => groups = found /\ IsPartitionInDateOrder(groups, commits)

\* C1 witness: a pass returned several groups for an input whose list order
\* is not its date order.
C1_Witness ==
  /\ pc = "cluster_returned"
  /\ Len(groups) >= 2
  /\ \E i \in 1..(Len(commits) - 1) : commits[i].commit_date > commits[i + 1].commit_date

ContinuousPair(c, g) ==
  /\ c.parent_hash # None
  /\ \/ c.parent_hash = g.hash
     \/ g.hash \in DOMAIN dbMapping /\ c.parent_hash = dbMapping[g.hash]

\* C2: in every group each member after the first is continuous with the
\* member before it (its parent_hash is that member's hash or mapped hash),
\* no group has more than max_group_size members, and two commits adjacent
\* in date order that are not continuous are never in the same group.
C2_GroupsContinuousAndBounded ==
  ClusterPassOver =>
    /\ \A g \in 1..Len(found) :
         /\ Len(found[g]) <= maxGroupSize
         /\ \A m \in 2..Len(found[g]) : ContinuousPair(found[g][m], found[g][m - 1])
    /\ LET flat == Flatten(found)
       IN \A j \in 1..(Len(flat) - 1) :
            ~ContinuousPair(flat[j + 1], flat[j]) =>
              ~\E g \in 1..Len(found) : \E m \in 1..(Len(found[g]) - 1) :
                 found[g][m] = flat[j] /\ found[g][m + 1] = flat[j + 1]

\* C2 witness: a group of max_group_size >= 2 members joined through a
\* mapped hash, followed by a commit that the size limit kept out.
C2_Witness ==
  /\ ClusterPassOver
  /\ maxGroupSize >= 2
  /\ \E g \in 1..Len(found) :
       /\ Len(found[g]) = maxGroupSize
       /\ found[g][2].parent_hash = NewOf(found[g][1].hash)
       /\ g < Len(found)
       /\ ContinuousPair(found[g + 1][1], found[g][Len(found[g])])

\* ------------------------------------------------------------ commits table
\* DatabaseManager.save_commit: INSERT OR REPLACE deletes the row of the same
\* hash and appends the new one
save_commit(rows, c) == SelectSeq(rows, LAMBDA r : r.hash # c.hash) \o <<c>>

RECURSIVE SaveCommitsFrom(_, _, _)
SaveCommitsFrom(rows, cs, i) ==
  IF i > Len(cs) THEN rows ELSE SaveCommitsFrom(save_commit(rows, cs[i]), cs, i + 1)

\* DatabaseManager.get_pending_commits: WHERE status = 'pending' ORDER BY commit_date
get_pending_commits(rows) ==
  SortByDate(SelectSeq(rows, LAMBDA r : r.status = "pending"))

\* DatabaseManager.get_all_commits: ORDER BY commit_date
get_all_commits(rows) == SortByDate(rows)

\* DatabaseManager.update_commit_status
update_commit_status(rows, h, st) ==
  [i \in 1..Len(rows) |-> IF rows[i].hash = h THEN [rows[i] EXCEPT !.status = st] ELSE rows[i]]

\* DatabaseManager.save_hash_mapping: INSERT OR REPLACE
save_hash_mapping(m, old, new) ==
  [h \in DOMAIN m \cup {old} |-> IF h = old THEN new ELSE m[h]]

\* DatabaseManager.can_resume
can_resume(session, rows) ==
  IF ~session.exists THEN FALSE ELSE Len(get_pending_commits(rows)) > 0

RECURSIVE SetToSortedSeq(_)
SetToSortedSeq(S) ==
  IF S = {} THEN << >>
  ELSE LET m == CHOOSE x \in S : \A y \in S : x <= y
       IN <<m>> \o SetToSortedSeq(S \ {m})

CommitByHash(rows, h) == rows[CHOOSE i \in 1..Len(rows) : rows[i].hash = h]

\* DatabaseManager.get_commit_groups: rows JOIN commits, ORDER BY group_id,
\* group_order, collected per group_id
get_commit_groups(table, rows) ==
  LET joined == {r \in table : \E i \in 1..Len(rows) : rows[i].hash = r.commit_hash}
      ids == SetToSortedSeq({r.group_id : r \in joined})
      Members(id) ==
        LET orders == SetToSortedSeq({r.group_order : r \in {q \in joined : q.group_id = id}})
        IN [k \in 1..Len(orders) |->
              CommitByHash(rows, (CHOOSE r \in joined :
                                    r.group_id = id /\ r.group_order = orders[k]).commit_hash)]
  IN [g \in 1..Len(ids) |-> Members(ids[g])]

\* ------------------------------------------------------------------ git
RECURSIVE HistoryOf(_, _)
\* the first-parent chain from the root to commit h
HistoryOf(objs, h) ==
  IF h = None THEN << >> ELSE Append(HistoryOf(objs, objs[h].parent), h)

\* git rev-list --max-parents=0 HEAD
RootOf(objs, h) == HistoryOf(objs, h)[1]

OrigMessage(h) == [kind |-> "orig", of |-> <<h>>]

\* the message the text generator and apply_conventional_format yield for a group
GroupMessage(group) == [kind |-> "new", of |-> Hashes(group)]

\* GitOperations._extract_commit_data
extract_commit_data(objs, h) ==
  CommitRecord(h, objs[h].parent, objs[h].diff_content, objs[h].modified_files,
               objs[h].commit_date, "pending")

\* the commit list of GitOperations.scan_commits(branch): iter_commits(reverse=True)
scan_list(objs, tip) ==
  LET hist == HistoryOf(objs, tip)
  IN [i \in 1..Len(hist) |-> extract_commit_data(objs, hist[i])]

FreshHash(objs) == (CHOOSE h \in DOMAIN objs : \A k \in DOMAIN objs : k <= h) + 1

\* commit time of the commits a run creates
NewDate(run) == 2 + run

\* ------------------------------------------------------- commit_messages dict
DictKeys(d) == {d[i].key : i \in 1..Len(d)}
DictGet(d, k) == d[CHOOSE i \in 1..Len(d) : d[i].key = k].val
DictPut(d, k, v) ==
  IF k \in DictKeys(d)
    THEN [i \in 1..Len(d) |-> IF d[i].key = k THEN [key |-> k, val |-> v] ELSE d[i]]
    ELSE Append(d, [key |-> k, val |-> v])

RECURSIVE PutGroupMessage(_, _, _, _)
PutGroupMessage(d, group, msg, i) ==
  IF i > Len(group) THEN d
  ELSE PutGroupMessage(DictPut(d, group[i].hash, msg), group, msg, i + 1)

\* the loop of _stepwise_rebase_execution that fills commit_messages; a group
\* of several commits calls AIRewriter.rewrite_commit_messages, which
\* AIRewriter does not define: AttributeError
RECURSIVE BuildCommitMessages(_, _, _)
BuildCommitMessages(d, gs, i) ==
  IF i > Len(gs) THEN [ok |-> TRUE, dict |-> d]
  ELSE IF Len(gs[i]) # 1 THEN [ok |-> FALSE, dict |-> d]
  ELSE BuildCommitMessages(PutGroupMessage(d, gs[i], GroupMessage(gs[i]), 1), gs, i + 1)

\* --------------------------------------------------------------------- Spec
OrigContents == {[diff |-> "dA", files |-> "fSrc"], [diff |-> "dB", files |-> "fDoc"]}

\* A linear history of NumCommits commits 1..NumCommits (1 is the root) on
\* main, an empty state store, no run yet.
Init ==
  /\ \E dat \in [1..NumCommits -> Dates], con \in [1..NumCommits -> OrigContents] :
       objects = [h \in 1..NumCommits |->
                    [parent |-> h - 1, commit_date |-> dat[h],
                     diff_content |-> con[h].diff, modified_files |-> con[h].files,
                     message |-> OrigMessage(h)]]
  /\ refs = [r \in {Main} |-> NumCommits]
  /\ head = Main
  /\ dbCommits = << >>
  /\ dbMapping = EmptyFn
  /\ dbGroups = {}
  /\ dbSession = NoSession
  /\ autoCreate \in BOOLEAN
  /\ checkRemoteSync \in BOOLEAN
  /\ dirty \in BOOLEAN
  /\ remote \in {None, NumCommits, NumCommits - 1}
  /\ disableMerging \in BOOLEAN
  /\ maxGroupSize = DefaultMaxGroupSize
  /\ pc = "idle"
  /\ dryRun = TRUE
  /\ runs = 0
  /\ path = "none"
  /\ commits = << >>
  /\ InitIdleLocals

Ended == {"idle", "done", "failed", "crashed", "rolled_back", "rollback_failed"}
Running == {"backup", "scan", "cluster", "session", "rewrite", "checkout", "replay",
            "swap", "update", "update_map", "finalize", "verify"}

StatusSet(rows, st) == {rows[i].hash : i \in {j \in 1..Len(rows) : rows[j].status = st}}

ResetLocals ==
  /\ backupBranch' = NoRef
  /\ errors' = << >>
  /\ commits' = << >>
  /\ found' = << >>
  /\ groups' = << >>
  /\ commitMessages' = << >>
  /\ currentBranch' = NoRef
  /\ tempBranch' = NoRef
  /\ sortedCommits' = << >>
  /\ idx' = 0

\* GitOperations.check_repo_status, the key is_synced: without a remote, or
\* when the fetch raises, the branch counts as synced; otherwise HEAD is
\* compared with origin/<branch>
is_synced(rem, local, fetched) == IF rem = None \/ ~fetched THEN TRUE ELSE local = rem

\* a variant of the checks of initialize() that lets a dirty tree pass
initialize_ok_any_tree(is_dirty, synced, check) == synced \/ ~check

\* the checks of RewriteExecutor.initialize(): RuntimeError on a dirty tree,
\* RuntimeError on an unsynced branch when safety.check_remote_sync is set
initialize_ok(is_dirty, synced, check) == ~is_dirty /\ (synced \/ ~check)

\* RewriteExecutor(config_path, dry_run) and run() up to the choice between
\* _resume_execution and _start_new_execution.  __init__ raises ValueError
\* when validate_config() fails and initialize() raises on a bad repository
\* state; _resume_execution falls back to _start_new_execution when
\* load_checkpoint() finds no current_position, and re-clusters the pending
\* commits when no group is stored.
Run(dry) ==
  /\ pc \in Ended
  /\ runs < MaxRuns
  /\ runs' = runs + 1
  /\ dryRun' = dry
  /\ \E valid \in BOOLEAN, fetched \in BOOLEAN :
       LET synced == is_synced(remote, refs[head], fetched)
           started == valid /\ initialize_ok(dirty, synced, checkRemoteSync)
           resumable == can_resume(dbSession, dbCommits)
           checkpoint == resumable /\ dbSession.current_position # None
           stored == get_commit_groups(dbGroups, dbCommits)
       IN /\ currentState' = IF started /\ resumable THEN dbSession ELSE NoSession
          /\ IF ~started
               THEN /\ path' = "aborted"
                    /\ commits' = << >>
                    /\ groups' = << >>
                    /\ pc' = "failed"
               ELSE IF checkpoint
               THEN /\ path' = "resume"
                    /\ IF stored = << >>
                         THEN /\ commits' = get_pending_commits(dbCommits)
                              /\ groups' = << >>
                              /\ pc' = "cluster"
                         ELSE /\ commits' = << >>
                              /\ groups' = stored
                              /\ pc' = "rewrite"
               ELSE /\ path' = "fresh"
                    /\ commits' = << >>
                    /\ groups' = << >>
                    /\ pc' = "backup"
          /\ start' = [taken |-> TRUE, refs |-> refs, head |-> head, mapping |-> dbMapping,
                       done |-> StatusSet(dbCommits, "done"),
                       pending |-> StatusSet(dbCommits, "pending"),
                       session |-> dbSession,
                       valid |-> valid, is_dirty |-> dirty, is_synced |-> synced]
  /\ backupBranch' = NoRef
  /\ found' = << >>
  /\ commitMessages' = << >>
  /\ currentBranch' = NoRef
  /\ tempBranch' = NoRef
  /\ sortedCommits' = << >>
  /\ idx' = 0
  /\ attempted' = << >>
  /\ skipped' = {}
  /\ replayedAs' = EmptyFn
  /\ errors' = << >>
  /\ UNCHANGED <<gitVars, dbVars, cfgVars, simVars, treeVars, aiVars, conflicts>>

\* a variant of create_backup_branch that backs up the configured branch
\* instead of the commit HEAD is on
create_backup_branch_of_main(rs, hd, backup_name) ==
  [r \in DOMAIN rs \cup {backup_name} |-> IF r = backup_name THEN rs[Main] ELSE rs[r]]

\* GitOperations.create_backup_branch: create_head(backup_name, repo.head.commit)
create_backup_branch(rs, hd, backup_name) ==
  [r \in DOMAIN rs \cup {backup_name} |-> IF r = backup_name THEN rs[hd] ELSE rs[r]]

\* RewriteExecutor._create_backup
CreateBackup ==
  /\ pc = "backup"
  /\ IF ~autoCreate
       THEN /\ backupBranch' = NoRef
            /\ pc' = "scan"
            /\ UNCHANGED refs
       ELSE \E ok \in BOOLEAN :
              IF ok
                THEN /\ refs' = create_backup_branch(refs, head, BackupRef(runs))
                     /\ backupBranch' = BackupRef(runs)
                     /\ pc' = "scan"
                ELSE /\ pc' = "failed"      \* create_head raised
                     /\ UNCHANGED <<refs, backupBranch>>
  /\ UNCHANGED <<objects, head, dbVars, cfgVars, simVars, diagVars, treeVars, aiVars, dryRun, runs, path, currentState, commits,
                 found, groups, commitMessages, currentBranch, tempBranch, sortedCommits,
                 idx, histVars>>

\* RewriteExecutor._scan_commits / GitOperations.scan_commits(branch)
ScanCommits ==
  /\ pc = "scan"
  /\ commits' = scan_list(objects, refs[Main])
  /\ dbCommits' = SaveCommitsFrom(dbCommits, commits', 1)
  /\ pc' = "cluster"
  /\ UNCHANGED <<gitVars, dbMapping, dbGroups, dbSession, cfgVars, simVars, diagVars, treeVars, aiVars, dryRun, runs, path,
                 currentState, backupBranch, found, groups, commitMessages, currentBranch,
                 tempBranch, sortedCommits, idx, histVars>>

\* RewriteExecutor._cluster_commits(commits): the groups, then
\* validate_groups(groups), whose errors are printed and nothing more
ClusterCommits ==
  /\ pc = "cluster"
  /\ IF disableMerging
       THEN /\ groups' = [i \in 1..Len(commits) |-> <<commits[i]>>]
            /\ errors' = validate_groups(groups', dbMapping, maxGroupSize)
            /\ pc' = IF path = "fresh" THEN "session" ELSE "rewrite"
            /\ UNCHANGED <<found, dbGroups>>
       ELSE LET r == analyze_similarity(commits, dbMapping, dbGroups, maxGroupSize)
            IN /\ found' = r.found
               /\ dbGroups' = r.table
               /\ groups' = IF r.ok THEN r.found ELSE << >>
               /\ errors' = IF r.ok THEN validate_groups(r.found, dbMapping, maxGroupSize)
                            ELSE << >>
               /\ pc' = IF ~r.ok THEN "failed"
                        ELSE IF path = "fresh" THEN "session" ELSE "rewrite"
  /\ UNCHANGED <<gitVars, dbCommits, dbMapping, dbSession, cfgVars, simVars, treeVars, aiVars,
                 dryRun, runs, path, currentState, backupBranch, commits, commitMessages,
                 currentBranch, tempBranch, sortedCommits, idx, histVars>>

\* RewriteExecutor._initialize_session / StateManager.initialize_session
InitializeSession ==
  /\ pc = "session"
  /\ LET state == [exists |-> TRUE, branch |-> Main, backup_branch |-> backupBranch,
                   current_position |-> None, total_commits |-> Len(commits),
                   processed_commits |-> 0]
     IN /\ dbSession' = state
        /\ currentState' = state
  /\ pc' = "rewrite"
  /\ UNCHANGED <<gitVars, dbCommits, dbMapping, dbGroups, cfgVars, simVars, diagVars, treeVars, aiVars, dryRun, runs, path,
                 backupBranch, commits, found, groups, commitMessages, currentBranch,
                 tempBranch, sortedCommits, idx, histVars>>

\* a variant of execute_rewrite_next that finalizes after a dry-run preview
execute_rewrite_next_always_finalize(dry, ok) ==
  IF dry THEN "finalize" ELSE IF ok THEN "checkout" ELSE "failed"

\* what follows the message loop of _execute_rewrite: after a dry-run
\* preview `if not self.dry_run` skips _finalize_rewrite and the caller
\* verifies; an apply run goes on to _sequential_rewrite unless the loop raised
execute_rewrite_next(dry, ok) ==
  IF dry THEN "verify" ELSE IF ok THEN "checkout" ELSE "failed"

\* RewriteExecutor._execute_rewrite / _execute_stepwise_rebase up to the call
\* of _sequential_rewrite: a dry run previews every group and is over, an
\* apply run determines the message of every group
ExecuteStepwiseRebase ==
  /\ pc = "rewrite"
  /\ IF dryRun
       THEN /\ pc' = execute_rewrite_next(TRUE, TRUE)
            /\ UNCHANGED commitMessages
       ELSE LET r == BuildCommitMessages(<< >>, groups, 1)
            IN /\ commitMessages' = IF r.ok THEN r.dict ELSE << >>
               /\ pc' = execute_rewrite_next(FALSE, r.ok)
  /\ UNCHANGED <<gitVars, dbVars, cfgVars, simVars, diagVars, treeVars, aiVars, dryRun, runs, path, currentState, backupBranch,
                 commits, found, groups, currentBranch, tempBranch, sortedCommits, idx,
                 histVars>>

\* _sequential_rewrite up to its loop: checkout -b temp-rewrite-<time>,
\* reset --hard <root of HEAD>, read and sort the commits table
BeginSequentialRewrite ==
  /\ pc = "checkout"
  /\ currentBranch' = head
  /\ tempBranch' = TempRef(runs)
  /\ refs' = [r \in DOMAIN refs \cup {TempRef(runs)} |->
                IF r = TempRef(runs) THEN RootOf(objects, refs[head]) ELSE refs[r]]
  /\ head' = TempRef(runs)
  /\ sortedCommits' = SortByDate(get_all_commits(dbCommits))
  /\ idx' = 1
  /\ pc' = IF sortedCommits' = << >> THEN "swap" ELSE "replay"
  /\ UNCHANGED <<objects, dbVars, cfgVars, simVars, diagVars, treeVars, aiVars, dryRun, runs, path, currentState, backupBranch,
                 commits, found, groups, commitMessages, histVars>>

\* a variant of the replay that keeps the original parent of the commit
ReplayedOntoOriginal(c, tip, run, msgs) ==
  [parent |-> c.parent_hash, commit_date |-> NewDate(run),
   diff_content |-> IF c.parent_hash = None THEN "dEmpty" ELSE c.diff_content,
   modified_files |-> IF c.parent_hash = None THEN "fNone" ELSE c.modified_files,
   message |-> IF c.hash \in DictKeys(msgs) THEN DictGet(msgs, c.hash)
               ELSE OrigMessage(c.hash)]

\* the commit a successful cherry-pick (and amend) of c leaves on the tip
Replayed(c, tip, run, msgs) ==
  [parent |-> tip, commit_date |-> NewDate(run),
   diff_content |-> IF c.parent_hash = None THEN "dEmpty" ELSE c.diff_content,
   modified_files |-> IF c.parent_hash = None THEN "fNone" ELSE c.modified_files,
   message |-> IF c.hash \in DictKeys(msgs) THEN DictGet(msgs, c.hash)
               ELSE OrigMessage(c.hash)]

\* a variant of the loop in which a failed cherry-pick ends the run
after_replay_abort(i, n, picked) ==
  IF ~picked THEN "failed" ELSE IF i = n THEN "swap" ELSE "replay"

\* where the loop of _sequential_rewrite goes after commit i of n: a failed
\* cherry-pick is caught, aborted and logged, and the loop continues
after_replay(i, n, picked) == IF i = n THEN "swap" ELSE "replay"

\* one iteration of the loop of _sequential_rewrite: cherry-pick the commit
\* and amend its message, or, when the cherry-pick fails, abort it and go on
ReplayCommit ==
  /\ pc = "replay"
  /\ LET c == sortedCommits[idx]
     IN \E ok \in BOOLEAN :
          /\ IF ok
               THEN LET new == FreshHash(objects)
                    IN /\ objects' = [h \in DOMAIN objects \cup {new} |->
                                        IF h = new
                                          THEN Replayed(c, refs[head], runs, commitMessages)
                                          ELSE objects[h]]
                       /\ refs' = [refs EXCEPT ![head] = new]
                       /\ replayedAs' = [h \in DOMAIN replayedAs \cup {c.hash} |->
                                           IF h = c.hash THEN new ELSE replayedAs[h]]
                       /\ UNCHANGED <<skipped, conflicts>>
               ELSE /\ conflicts < MaxConflicts
                    /\ skipped' = skipped \cup {c.hash}
                    /\ conflicts' = conflicts + 1
                    /\ UNCHANGED <<objects, refs, replayedAs>>
          /\ attempted' = Append(attempted, c.hash)
  /\ idx' = idx + 1
  /\ pc' = after_replay(idx, Len(sortedCommits), refs' # refs)
  /\ UNCHANGED <<head, dbVars, cfgVars, simVars, diagVars, treeVars, aiVars, dryRun, runs, path, currentState, backupBranch,
                 commits, found, groups, commitMessages, currentBranch, tempBranch,
                 sortedCommits, start>>

\* a variant of branch -D that also drops the backup branches
delete_branch_and_backups(rs, name) ==
  [r \in {x \in DOMAIN rs : x # name /\ x.kind # "backup"} |-> rs[r]]

\* git branch -D <name>
delete_branch(rs, name) == [r \in DOMAIN rs \ {name} |-> rs[r]]

\* git reset --hard <branch_name>: the checked-out branch moves to it
reset_hard(rs, hd, branch_name) == [rs EXCEPT ![hd] = rs[branch_name]]

\* the end of _sequential_rewrite: checkout <current_branch> --force,
\* reset --hard <temp_branch>, branch -D <temp_branch>.  Any of the three may
\* raise; the handler then tries checkout <current_branch> --force and
\* branch -D <temp_branch> (a failing command fails again there) and re-raises
SwapBranch ==
  /\ pc = "swap"
  /\ \E fail \in {"none", "checkout", "reset", "delete"} :
       CASE fail = "none" ->
              /\ head' = currentBranch
              /\ refs' = delete_branch(reset_hard(refs, currentBranch, tempBranch), tempBranch)
              /\ idx' = 1
              /\ pc' = "update"
         [] fail = "checkout" ->
              /\ UNCHANGED <<head, refs, idx>>
              /\ pc' = "failed"
         [] fail = "reset" ->
              /\ head' = currentBranch
              /\ refs' = delete_branch(refs, tempBranch)
              /\ pc' = "failed"
              /\ UNCHANGED idx
         [] fail = "delete" ->
              /\ head' = currentBranch
              /\ refs' = reset_hard(refs, currentBranch, tempBranch)
              /\ pc' = "failed"
              /\ UNCHANGED idx
  /\ UNCHANGED <<objects, dbVars, cfgVars, simVars, diagVars, treeVars, aiVars, dryRun, runs, path, currentState, backupBranch,
                 commits, found, groups, commitMessages, currentBranch, tempBranch,
                 sortedCommits, histVars>>

\* the loop of _update_state_after_rebase_all, first statement:
\* mark_commit_processed(commit_hash, 'done')
UpdateStateCommit ==
  /\ pc = "update"
  /\ idx <= Len(commitMessages)
  /\ dbCommits' = update_commit_status(dbCommits, commitMessages[idx].key, "done")
  /\ pc' = "update_map"
  /\ UNCHANGED <<gitVars, dbMapping, dbGroups, dbSession, cfgVars, simVars, diagVars, treeVars, aiVars, dryRun, runs, path,
                 localVars, histVars>>

\* the loop of _update_state_after_rebase_all, second statement:
\* save_hash_mapping(commit_hash, current_head)
UpdateStateMapping ==
  /\ pc = "update_map"
  /\ LET commit_hash == commitMessages[idx].key
         current_head == refs[head]
     IN dbMapping' = save_hash_mapping(dbMapping, commit_hash, current_head)
  /\ idx' = idx + 1
  /\ pc' = "update"
  /\ UNCHANGED <<gitVars, dbCommits, dbGroups, dbSession, cfgVars, simVars, diagVars, treeVars, aiVars, dryRun, runs, path,
                 currentState, backupBranch, commits, found, groups, commitMessages,
                 currentBranch, tempBranch, sortedCommits, histVars>>

\* StateManager.get_current_state
get_current_state(cache, session) == IF cache.exists THEN cache ELSE session

\* the end of _update_state_after_rebase_all:
\* update_session(processed_commits = processed_commits + processed_count)
UpdateStateSession ==
  /\ pc = "update"
  /\ idx > Len(commitMessages)
  /\ LET current_state == get_current_state(currentState, dbSession)
         updated == [current_state EXCEPT
                       !.processed_commits = @ + Len(commitMessages)]
     IN IF current_state.exists
          THEN /\ dbSession' = updated
               /\ currentState' = updated
          ELSE UNCHANGED <<dbSession, currentState>>
  /\ pc' = "finalize"
  /\ UNCHANGED <<gitVars, dbCommits, dbMapping, dbGroups, cfgVars, simVars, diagVars, treeVars, aiVars, dryRun, runs, path,
                 backupBranch, commits, found, groups, commitMessages, currentBranch,
                 tempBranch, sortedCommits, idx, histVars>>

\* a variant of _finalize_rewrite in which a failed push or gc ends the run
finalize_outcome_raise(pushed, collected) == IF pushed /\ collected THEN "verify" ELSE "failed"

\* where the run goes after _finalize_rewrite: _force_push_if_needed and
\* _cleanup_dangling_objects catch every exception and only log it
finalize_outcome(pushed, collected) == "verify"

\* RewriteExecutor._finalize_rewrite: push --force-with-lease of the branch
\* when it tracks a remote, then gc --prune=now; either may fail
FinalizeRewrite ==
  /\ pc = "finalize"
  /\ \E pushed \in BOOLEAN, collected \in BOOLEAN :
       /\ remote' = IF remote # None /\ pushed THEN refs[head] ELSE remote
       /\ pc' = finalize_outcome(pushed, collected)
  /\ UNCHANGED <<gitVars, dirty, dbVars, cfgVars, simVars, diagVars, aiVars, dryRun, runs, path, localVars, histVars>>

\* RewriteExecutor._verify_results: fsck and statistics, nothing is repaired
VerifyResults ==
  /\ pc = "verify"
  /\ pc' = "done"
  /\ UNCHANGED <<gitVars, dbVars, cfgVars, simVars, diagVars, treeVars, aiVars, dryRun, runs, path, localVars, histVars>>

\* the process is interrupted between two steps: what it held in memory is
\* lost, the repository and the state store stay as they are; an interrupted
\* cherry-pick may leave the index and the working tree modified
Crash ==
  /\ pc \in Running
  /\ pc' = "crashed"
  /\ currentState' = NoSession
  /\ ResetLocals
  /\ IF pc = "replay" THEN dirty' \in BOOLEAN ELSE dirty' = dirty
  /\ UNCHANGED <<gitVars, remote, dbVars, cfgVars, simVars, aiVars, dryRun, runs, path, histVars>>

BackupNames == {BackupRef(n) : n \in 1..MaxRuns}

\* a variant of reset_to_branch that reports success for a missing ref
reset_to_branch_unchecked(rs, hd, branch_name) ==
  IF branch_name \in DOMAIN rs
    THEN [ok |-> TRUE, refs |-> reset_hard(rs, hd, branch_name)]
    ELSE [ok |-> TRUE, refs |-> rs]

\* GitOperations.reset_to_branch: git reset --hard <branch_name>; git exits
\* with an error and changes nothing when the name resolves to no ref, the
\* exception is caught and False returned
reset_to_branch(rs, hd, branch_name) ==
  IF branch_name \in DOMAIN rs
    THEN [ok |-> TRUE, refs |-> reset_hard(rs, hd, branch_name)]
    ELSE [ok |-> FALSE, refs |-> rs]

\* RewriteExecutor.rollback(backup_branch): initialize(), then
\* GitOperations.reset_to_branch; every exception is turned into False
Rollback(backup_branch) ==
  /\ pc \in Ended
  /\ \E fetched \in BOOLEAN :
       LET synced == is_synced(remote, refs[head], fetched)
       IN IF initialize_ok(dirty, synced, checkRemoteSync)
            THEN LET r == reset_to_branch(refs, head, backup_branch)
                 IN /\ refs' = r.refs
                    /\ pc' = IF r.ok THEN "rolled_back" ELSE "rollback_failed"
            ELSE /\ UNCHANGED refs
                 /\ pc' = "rollback_failed"
  /\ backupBranch' = backup_branch
  /\ dryRun' = FALSE
  /\ path' = "rollback"
  /\ currentState' = NoSession
  /\ commits' = << >>
  /\ found' = << >>
  /\ groups' = << >>
  /\ commitMessages' = << >>
  /\ currentBranch' = NoRef
  /\ tempBranch' = NoRef
  /\ sortedCommits' = << >>
  /\ idx' = 0
  /\ start' = NoStart
  /\ attempted' = << >>
  /\ skipped' = {}
  /\ replayedAs' = EmptyFn
  /\ errors' = << >>
  /\ UNCHANGED <<objects, head, treeVars, dbVars, cfgVars, simVars, aiVars, runs, conflicts>>

Next ==
  \/ \E dry \in BOOLEAN : Run(dry)
  \/ CreateBackup
  \/ ScanCommits
  \/ ClusterCommits
  \/ InitializeSession
  \/ ExecuteStepwiseRebase
  \/ BeginSequentialRewrite
  \/ ReplayCommit
  \/ SwapBranch
  \/ UpdateStateCommit
  \/ UpdateStateMapping
  \/ UpdateStateSession
  \/ FinalizeRewrite
  \/ VerifyResults
  \/ Crash
  \/ \E b \in BackupNames : Rollback(b)

Spec == Init /\ [][Next]_vars

\* ------------------------------------------------------------------ claims
AfterSwap == {"update", "update_map", "finalize", "verify", "done"}

ApplyDone == pc = "done" /\ ~dryRun

SameGroup(a, b) ==
  \E g \in 1..Len(groups) : {a, b} \subseteq {groups[g][m].hash : m \in 1..Len(groups[g])}

\* C3: after an apply run without a replay conflict the rewritten branch
\* holds exactly one commit per group, and that commit carries the group's
\* new message.
C3_OneCommitPerGroup ==
  (ApplyDone /\ skipped = {}) =>
    LET hist == HistoryOf(objects, refs[head])
    IN /\ Len(hist) = Len(groups)
       /\ \A g \in 1..Len(groups) :
            \E i \in 1..Len(hist) : objects[hist[i]].message = GroupMessage(groups[g])

\* C4 as stated: in every apply run, for every configuration, a backup ref
\* pointing at the branch tip exists when the first destructive step (the
\* creation of the scratch branch) is about to execute.
C4_BackupBeforeDestructiveStep ==
  (pc = "checkout" /\ ~dryRun) =>
    \E r \in DOMAIN refs : r.kind = "backup" /\ refs[r] = refs[head]

\* C4 amended: in every apply run with backup.auto_create enabled, the backup
\* ref this run created exists and points at the tip of the checked-out
\* branch when the creation of the scratch branch is about to execute.
C4_BackupBeforeDestructiveStepIfEnabled ==
  (pc = "checkout" /\ ~dryRun /\ autoCreate) =>
    /\ backupBranch = BackupRef(runs)
    /\ backupBranch \in DOMAIN refs
    /\ refs[backupBranch] = refs[head]

\* C4 witness: an apply run started on the scratch branch an interrupted run
\* left checked out, holding its backup, about to create its scratch branch.
C4_Witness ==
  /\ pc = "checkout" /\ ~dryRun /\ autoCreate
  /\ head # Main
  /\ refs[head] # refs[Main]
  /\ backupBranch \in DOMAIN refs
  /\ refs[backupBranch] = refs[head]

\* C5: a dry run leaves the set of refs, what they point at and HEAD exactly
\* as they were when the run started.
C5_DryRunLeavesRefsUnchanged ==
  (start.taken /\ dryRun) => (refs = start.refs /\ head = start.head)

\* C6: a run that starts after an interrupted one, with some commits done and
\* some pending, replays only commits that were pending at its start, and
\* when it has finished the mapping of the commits that were done is what it
\* was at its start.
C6_ResumeReplaysOnlyPending ==
  (start.taken /\ ~dryRun /\ start.session.exists /\ start.done # {} /\ start.pending # {}) =>
    /\ \A i \in 1..Len(attempted) : attempted[i] \in start.pending
    /\ pc = "done" =>
         \A h \in start.done \cap DOMAIN start.mapping :
           h \in DOMAIN dbMapping /\ dbMapping[h] = start.mapping[h]

\* C7: run() takes the resume path exactly when, at startup, a session row
\* exists and at least one commit is pending; otherwise the fresh-start path.
C7_ResumeIffSessionAndPending ==
  start.taken => ((path = "resume") <=> (start.session.exists /\ start.pending # {}))

\* C8: a failed replay of one commit changes neither the scratch branch tip
\* nor the object store, counts as an attempt, and the loop goes on to the
\* next commit or to the branch swap; the replay loop never ends the run as
\* failed; once the swap is reached every commit of the table has been
\* attempted, in date order.
C8_ConflictSkipsOneCommit ==
  /\ [][(pc = "replay" /\ skipped' # skipped) =>
          /\ refs' = refs /\ objects' = objects /\ head' = head
          /\ attempted' = Append(attempted, sortedCommits[idx].hash)
          /\ pc' = IF idx = Len(sortedCommits) THEN "swap" ELSE "replay"]_vars
  /\ [][(pc = "replay" /\ ~dryRun) => pc' \in {"replay", "swap", "crashed"}]_vars
  /\ []((pc \in AfterSwap /\ ~dryRun) =>
          /\ attempted = Hashes(sortedCommits)
          /\ \A i \in 1..(Len(sortedCommits) - 1) :
               sortedCommits[i].commit_date <= sortedCommits[i + 1].commit_date)

\* C8 witness: a completed apply run in which the replay of a commit that is
\* not the last one failed and a later commit was replayed.
C8_Witness ==
  /\ ApplyDone
  /\ \E i \in 1..(Len(attempted) - 1) :
       /\ attempted[i] \in skipped
       /\ attempted[i + 1] \in DOMAIN replayedAs

\* C9: after an apply run, a commit whose replay failed and was skipped is
\* not marked done and has no entry in the hash mapping.
C9_SkippedCommitNotDoneNotMapped ==
  ApplyDone =>
    \A h \in skipped : h \notin StatusSet(dbCommits, "done") /\ h \notin DOMAIN dbMapping

\* C10: after a completed apply run the hash mapping sends every replayed
\* commit to the commit that replays it, and two commits share a new hash
\* only if they are members of the same group.
C10_MappingRepresentsReplay ==
  ApplyDone =>
    /\ \A h \in DOMAIN replayedAs \cap DictKeys(commitMessages) :
         h \in DOMAIN dbMapping /\ dbMapping[h] = replayedAs[h]
    /\ \A a, b \in DictKeys(commitMessages) \cap DOMAIN dbMapping :
         (a # b /\ dbMapping[a] = dbMapping[b]) => SameGroup(a, b)

\* C11: the status of a row of the commits table only moves forward: no step
\* deletes a row, and no step makes a row pending again once it has left
\* pending.
C11_StatusOnlyMovesForward ==
  [][\A i \in 1..Len(dbCommits) :
       \E j \in 1..Len(dbCommits') :
         /\ dbCommits'[j].hash = dbCommits[i].hash
         /\ dbCommits[i].status # "pending" => dbCommits'[j].status # "pending"]_vars

\* C12: the continuity check between a commit and the previous commit in date
\* order (the last member of the open group) passes exactly when its
\* parent_hash is that commit's hash, or that commit has a mapping and
\* parent_hash is its mapped hash.
C12_ContinuityCheck ==
  ClusterPassOver =>
    LET sorted == SortByDate(commits)
    IN \A j \in 1..(Len(sorted) - 1) :
         is_continuous(sorted[j + 1], sorted[j], dbMapping)
           <=> ContinuousPair(sorted[j + 1], sorted[j])

\* C13: clustering the same commits again, with the state store as the
\* previous pass left it, ends as the previous pass did: a pass that returned
\* is followed by a pass that returns the same list of groups and leaves the
\* same rows in commit_groups; a pass that raised is followed by one that
\* raises and leaves the same rows.
C13_ReclusteringIsIdempotent ==
  [][(pc \in {"cluster_returned", "cluster_raised"} /\ pc' # pc) =>
       /\ pc' = IF pc = "cluster_returned" THEN "cluster_again" ELSE "cluster_raised_again"
       /\ found' = found
       /\ groups' = groups
       /\ dbGroups' = dbGroups]_vars

\* C13 witness: a second pass returned several groups, with rows persisted.
C13_Witness ==
  /\ pc = "cluster_again"
  /\ Len(groups) >= 2
  /\ \E r \in dbGroups : r.group_id = 1

SimilarityOf(c, g) ==
  calculate_diff_similarity(c.diff_content, g.diff_content, c.modified_files, g.modified_files)

AtThreshold(s) == s.n * ThresholdDen = ThresholdNum * s.d

\* C14: in every group the similarity of each member to the member before it
\* is strictly greater than the threshold; a pair whose similarity equals the
\* threshold is never adjacent in a group.
C14_StrictThreshold ==
  ClusterPassOver =>
    \A g \in 1..Len(found) : \A m \in 2..Len(found[g]) :
      LET s == SimilarityOf(found[g][m], found[g][m - 1])
      IN ~AtThreshold(s) /\ s.n * ThresholdDen > ThresholdNum * s.d

\* C14 witness: two commits adjacent in date order, continuous, with
\* similarity exactly 4/5 and room in the group, ended up in different groups.
C14_Witness ==
  /\ ClusterPassOver
  /\ maxGroupSize >= 2
  /\ \E g \in 1..(Len(found) - 1) :
       /\ Len(found[g]) = 1
       /\ is_continuous(found[g + 1][1], found[g][1], dbMapping)
       /\ AtThreshold(SimilarityOf(found[g + 1][1], found[g][1]))

\* the commits, in date order, form a chain of continuous commits with
\* identical diffs and files
IdenticalChain(sorted) ==
  \A j \in 1..(Len(sorted) - 1) :
    /\ is_continuous(sorted[j + 1], sorted[j], dbMapping)
    /\ sorted[j + 1].diff_content = sorted[j].diff_content
    /\ sorted[j + 1].modified_files = sorted[j].modified_files

ScenarioA(sorted) ==
  /\ Len(sorted) = 3
  /\ sorted[1].parent_hash = None
  /\ is_continuous(sorted[2], sorted[1], dbMapping)
  /\ is_continuous(sorted[3], sorted[2], dbMapping)
  /\ sorted[3].diff_content = sorted[2].diff_content
  /\ sorted[3].modified_files = sorted[2].modified_files
  /\ maxGroupSize >= 2

GroupKeys(table) ==
  {[group_id |-> r.group_id, commit_hash |-> r.commit_hash, group_order |-> r.group_order] :
     r \in table}

\* the rows that hold exactly the groups gs: group i (from 0), members in order
RowsOfGroups(gs) ==
  {[group_id |-> q[1] - 1, commit_hash |-> gs[q[1]][q[2]].hash, group_order |-> q[2] - 1] :
     q \in Positions(gs)}

\* C17: after a clustering pass has returned, commit_groups holds exactly the
\* groups the pass returned, and no row of an earlier grouping.
C17_StoredGroupsAreReturnedGroups ==
  pc \in {"cluster_returned", "cluster_again"} => GroupKeys(dbGroups) = RowsOfGroups(groups)

\* C18: persisting a group of n >= 1 members succeeds and stores n rows that
\* share the group's id with order 0..n-1: after a clustering pass every
\* group the pass formed can be read back, member by member, and the pass
\* did not raise.
C18_GroupsPersistedInOrder ==
  ClusterPassOver =>
    /\ pc \in {"cluster_returned", "cluster_again"}
    /\ \A q \in Positions(found) :
         \E r \in dbGroups :
           /\ r.group_id = q[1] - 1
           /\ r.commit_hash = found[q[1]][q[2]].hash
           /\ r.group_order = q[2] - 1

\* ------------------------------------------------------------ SpecMessages
\* The message determination of _stepwise_rebase_execution on its own, for
\* every list of groups that splits a chain of up to MaxLen commits into
\* consecutive groups.
ChainInputs ==
  UNION {
    {[i \in 1..n |-> CommitRecord(i, i - 1, con[i].diff, con[i].files, dat[i], "pending")] :
       con \in [1..n -> ClusterContents], dat \in [1..n -> Dates]}
    : n \in 0..MaxLen}

RECURSIVE SplitAt(_, _, _)
\* the groups of seq[k..], a new group starting after every position in cuts
SplitAt(seq, cuts, k) ==
  IF k > Len(seq) THEN << >>
  ELSE LET ends == {e \in k..Len(seq) : e \in cuts \/ e = Len(seq)}
           e == CHOOSE x \in ends : \A y \in ends : x <= y
       IN <<SubSeq(seq, k, e)>> \o SplitAt(seq, cuts, e + 1)

GroupInputs ==
  UNION {{SplitAt(cs, cuts, 1) : cuts \in SUBSET (1..(Len(cs) - 1))} : cs \in ChainInputs}

InitMessages ==
  /\ groups \in GroupInputs
  /\ commits = Flatten(groups)
  /\ pc = "messages_call"
  /\ InitIdleSim
  /\ errors = << >>
  /\ dryRun = FALSE
  /\ dbMapping = EmptyFn
  /\ maxGroupSize = DefaultMaxGroupSize
  /\ dbGroups = {}
  /\ dbCommits = << >>
  /\ dbSession = NoSession
  /\ objects = EmptyFn
  /\ refs = EmptyFn
  /\ head = Main
  /\ autoCreate = TRUE
  /\ checkRemoteSync = FALSE
  /\ dirty = FALSE
  /\ remote = None
  /\ disableMerging = FALSE
  /\ runs = 0
  /\ path = "none"
  /\ currentState = NoSession
  /\ backupBranch = NoRef
  /\ found = << >>
  /\ commitMessages = << >>
  /\ currentBranch = NoRef
  /\ tempBranch = NoRef
  /\ sortedCommits = << >>
  /\ idx = 0
  /\ start = NoStart
  /\ attempted = << >>
  /\ skipped = {}
  /\ replayedAs = EmptyFn
  /\ conflicts = 0
  /\ InitIdleAi

\* the first loop of _stepwise_rebase_execution(groups)
DetermineMessages ==
  /\ pc = "messages_call"
  /\ LET r == BuildCommitMessages(<< >>, groups, 1)
     IN /\ commitMessages' = IF r.ok THEN r.dict ELSE << >>
        /\ pc' = IF r.ok THEN "messages_done" ELSE "messages_raised"
  /\ UNCHANGED <<gitVars, dbVars, cfgVars, simVars, diagVars, treeVars, aiVars, dryRun, runs, path, currentState, backupBranch,
                 commits, found, groups, currentBranch, tempBranch, sortedCommits, idx,
                 histVars>>

NextMessages == DetermineMessages

SpecMessages == InitMessages /\ [][NextMessages]_vars

\* C19: message determination completes for every list of groups, whatever
\* the sizes of the groups, and gives every member of a group the one message
\* of its group.
C19_EveryGroupGetsOneMessage ==
  pc # "messages_call" =>
    /\ pc # "messages_raised"
    /\ \A g \in 1..Len(groups) : \A m \in 1..Len(groups[g]) :
         /\ groups[g][m].hash \in DictKeys(commitMessages)
         /\ DictGet(commitMessages, groups[g][m].hash) = GroupMessage(groups[g])

\* --------------------------------------------------------------- SpecRetry
\* One call of AIRewriter._call_ai_with_retry(prompt, max_retries).
DefaultMaxRetries == 3

\* the words of a prompt; the keyword tests of _fallback_generate are made on
\* the lower-cased prompt
PromptWords == {"Fix", "add", "README", "typo"}

lower_word(w) ==
  CASE w = "Fix" -> "fix"
    [] w = "README" -> "readme"
    [] OTHER -> w

\* the texts the API can return, and str.strip() of them
ApiTexts == {" feat: add x ", "fix: y"}

strip(t) == IF t = " feat: add x " THEN "feat: add x" ELSE t

\* any(keyword in prompt_lower for keyword in keywords)
HasKeyword(prompt, keywords) == \E w \in prompt : lower_word(w) \in keywords

\* AIRewriter._fallback_generate(prompt)
fallback_generate(prompt) ==
  IF HasKeyword(prompt, {"fix", "bug", "error", "issue"}) THEN "fix: resolve issues"
  ELSE IF HasKeyword(prompt, {"feature", "add", "new", "implement"}) THEN "feat: add new feature"
  ELSE IF HasKeyword(prompt, {"refactor", "clean", "improve"}) THEN "refactor: improve code"
  ELSE IF HasKeyword(prompt, {"doc", "readme", "comment"}) THEN "docs: update documentation"
  ELSE IF HasKeyword(prompt, {"test", "spec"}) THEN "test: add tests"
  ELSE IF HasKeyword(prompt, {"style", "format", "lint"}) THEN "style: format code"
  ELSE "chore: update files"

\* a variant of the loop body that re-raises the error of the last attempt
attempt_result_reraise(outcome, attempt, max_retries, prompt) ==
  IF outcome # "error" THEN [returned |-> TRUE, value |-> strip(outcome)]
  ELSE IF attempt = max_retries - 1 THEN [returned |-> TRUE, value |-> "error"]
  ELSE [returned |-> FALSE, value |-> NoText]

\* the body of the loop of _call_ai_with_retry for attempt 0, 1, ...: return
\* the stripped text, or the fallback after the last attempt, or sleep and
\* go on
attempt_result(outcome, attempt, max_retries, prompt) ==
  IF outcome # "error" THEN [returned |-> TRUE, value |-> strip(outcome)]
  ELSE IF attempt = max_retries - 1 THEN [returned |-> TRUE, value |-> fallback_generate(prompt)]
  ELSE [returned |-> FALSE, value |-> NoText]

InitRetry ==
  /\ aiOutcomes \in [1..DefaultMaxRetries -> ApiTexts \cup {"error"}]
  /\ aiPrompt \in SUBSET PromptWords
  /\ aiMaxRetries \in 0..DefaultMaxRetries
  /\ aiAttempt = 0
  /\ aiResult = NoText
  /\ InitIdleSim
  /\ errors = << >>
  /\ pc = "ai_call"
  /\ commits = << >>
  /\ groups = << >>
  /\ dryRun = FALSE
  /\ dbMapping = EmptyFn
  /\ maxGroupSize = DefaultMaxGroupSize
  /\ dbGroups = {}
  /\ dbCommits = << >>
  /\ dbSession = NoSession
  /\ objects = EmptyFn
  /\ refs = EmptyFn
  /\ head = Main
  /\ autoCreate = TRUE
  /\ checkRemoteSync = FALSE
  /\ dirty = FALSE
  /\ remote = None
  /\ disableMerging = FALSE
  /\ runs = 0
  /\ path = "none"
  /\ currentState = NoSession
  /\ backupBranch = NoRef
  /\ found = << >>
  /\ commitMessages = << >>
  /\ currentBranch = NoRef
  /\ tempBranch = NoRef
  /\ sortedCommits = << >>
  /\ idx = 0
  /\ start = NoStart
  /\ attempted = << >>
  /\ skipped = {}
  /\ replayedAs = EmptyFn
  /\ conflicts = 0

\* one iteration of "for attempt in range(max_retries)"
AiAttempt ==
  /\ pc = "ai_call"
  /\ aiAttempt < aiMaxRetries
  /\ LET r == attempt_result(aiOutcomes[aiAttempt + 1], aiAttempt, aiMaxRetries, aiPrompt)
     IN /\ aiResult' = r.value
        /\ pc' = IF r.returned THEN "ai_returned" ELSE "ai_call"
  /\ aiAttempt' = aiAttempt + 1
  /\ UNCHANGED <<gitVars, dbVars, cfgVars, simVars, diagVars, treeVars, aiOutcomes, aiPrompt, aiMaxRetries, dryRun, runs,
                 path, localVars, histVars>>

\* the return after the loop: return self._fallback_generate(prompt)
AiLoopExhausted ==
  /\ pc = "ai_call"
  /\ aiAttempt >= aiMaxRetries
  /\ aiResult' = fallback_generate(aiPrompt)
  /\ pc' = "ai_returned"
  /\ UNCHANGED <<gitVars, dbVars, cfgVars, simVars, diagVars, treeVars, aiOutcomes, aiPrompt, aiMaxRetries, aiAttempt,
                 dryRun, runs, path, localVars, histVars>>

NextRetry ==
  \/ AiAttempt
  \/ AiLoopExhausted

SpecRetry == InitRetry /\ [][NextRetry]_vars

\* the attempts, among the first max_retries, whose API call returns a text
SucceedingAttempts == {i \in 1..aiMaxRetries : aiOutcomes[i] # "error"}

FallbackMessages ==
  {"fix: resolve issues", "feat: add new feature", "refactor: improve code",
   "docs: update documentation", "test: add tests", "style: format code",
   "chore: update files"}

\* C20: a message-generation call makes at most max_retries API calls and
\* then has returned; it returns the stripped text of the first attempt that
\* succeeds, and one of the fixed fallback messages, determined by the prompt,
\* when no attempt succeeds; an error of the API is never what it yields.
C20_GenerationAlwaysReturns ==
  /\ aiAttempt <= aiMaxRetries
  /\ (pc = "ai_call" /\ aiAttempt > 0) =>
       (aiAttempt < aiMaxRetries /\ \A i \in 1..aiAttempt : aiOutcomes[i] = "error")
  /\ pc = "ai_returned" =>
       IF SucceedingAttempts # {}
         THEN LET first == CHOOSE i \in SucceedingAttempts :
                             \A j \in SucceedingAttempts : i <= j
              IN aiResult = strip(aiOutcomes[first]) /\ aiAttempt = first
         ELSE /\ aiResult \in FallbackMessages
              /\ aiResult = fallback_generate(aiPrompt)
              /\ aiAttempt = aiMaxRetries

\* C20 witness: all max_retries = 3 attempts failed and the call returned the
\* fallback message for a prompt that names a fix.
C20_Witness ==
  /\ pc = "ai_returned"
  /\ aiMaxRetries = DefaultMaxRetries
  /\ aiAttempt = DefaultMaxRetries
  /\ \A i \in 1..DefaultMaxRetries : aiOutcomes[i] = "error"
  /\ "Fix" \in aiPrompt
  /\ aiResult = "fix: resolve issues"

\* C21: when an apply run has completed, no session row remains in the state
\* store
C21_SessionClearedOnCompletion == ApplyDone => ~dbSession.exists

ReplayedPositions == {i \in 1..Len(attempted) : attempted[i] \in DOMAIN replayedAs}
LastReplayed ==
  attempted[CHOOSE i \in ReplayedPositions : \A j \in ReplayedPositions : j <= i]

\* C22: during the replay loop of an apply run, once a commit has been
\* replayed the persisted session names the last replayed commit as
\* current_position and counts the commits replayed so far in
\* processed_commits
C22_CheckpointAfterEachReplay ==
  (pc \in {"replay", "swap"} /\ ~dryRun /\ ReplayedPositions # {}) =>
    /\ dbSession.exists
    /\ dbSession.current_position = LastReplayed
    /\ dbSession.processed_commits = Cardinality(ReplayedPositions)

BackupRefsKept ==
  \A r \in DOMAIN refs :
    r.kind = "backup" => (r \in DOMAIN refs' /\ refs'[r] = refs[r])

GroupIds(table) == {row.group_id : row \in table}

\* the step ends the invocation with an error
FatalStep == pc' \in {"failed", "crashed"} /\ (pc \notin Ended \/ runs' # runs)

\* C23: a backup ref, once created, is never deleted or moved by any step of
\* this or a later run, resume or rollback, and a step that ends a run with
\* an error removes nothing from the state store: the commits, mappings and
\* session stay as they are and every stored group is still stored
C23_BackupRefIsNeverMovedOrDeleted ==
  [][/\ BackupRefsKept
     /\ FatalStep =>
          /\ dbCommits' = dbCommits
          /\ dbMapping' = dbMapping
          /\ dbSession' = dbSession
          /\ GroupIds(dbGroups) \subseteq GroupIds(dbGroups')]_vars

\* a run failed in the branch swap, its cleanup has run, and its backup and
\* the session are still there
C23_Witness ==
  /\ pc = "failed"
  /\ tempBranch # NoRef
  /\ tempBranch \notin DOMAIN refs
  /\ backupBranch \in DOMAIN refs
  /\ refs[backupBranch] = start.refs[start.head]
  /\ dbSession.exists

\* C24: in every state between invocations, rollback(b) for an existing
\* backup ref b reports success and leaves the checked-out branch at b
C24_RollbackAlwaysSucceeds ==
  [][(pc' \in {"rolled_back", "rollback_failed"} /\ backupBranch' \in DOMAIN refs) =>
       (pc' = "rolled_back" /\ refs'[head'] = refs[backupBranch'])]_vars

\* the invocation ended at startup and left refs and state store as it found them
AbortedUntouched ==
  /\ pc = "failed"
  /\ path = "aborted"
  /\ refs = start.refs
  /\ head = start.head
  /\ dbMapping = start.mapping
  /\ dbSession = start.session
  /\ StatusSet(dbCommits, "pending") = start.pending
  /\ StatusSet(dbCommits, "done") = start.done

\* C25 as stated: a run whose configuration is invalid, whose working tree is
\* dirty or whose branch is not synced with its remote aborts before any ref
\* or state store content changes
C25_BadStartAborts ==
  (start.taken /\ (~start.valid \/ start.is_dirty \/ ~start.is_synced)) => AbortedUntouched

\* C25: a run whose configuration is invalid, whose working tree is dirty, or
\* whose branch is found out of sync while safety.check_remote_sync is set,
\* aborts before any ref or state store content changes
C25_RefusedStartAborts ==
  (start.taken /\ (~start.valid \/ start.is_dirty \/ (~start.is_synced /\ checkRemoteSync))) =>
    AbortedUntouched

\* a second invocation refused for the sync check alone, on a store a first
\* run has filled
C25_Witness ==
  /\ pc = "failed"
  /\ path = "aborted"
  /\ start.valid /\ ~start.is_dirty /\ ~start.is_synced
  /\ dbSession.exists
  /\ dbCommits # << >>

\* C26: when a run is ended by a failing backup-ref creation or a failing
\* branch swap, the state store holds a session and pending commits, so
\* that can_resume() is true
C26_FatalErrorLeavesResumable ==
  [][((pc = "backup" \/ pc = "swap") /\ pc' = "failed") =>
       can_resume(dbSession', dbCommits')]_vars

\* C27: in every state of the state store, every old hash that has a
\* hash_mapping row belongs to a commit whose status is done
C27_MappedCommitIsDone ==
  \A h \in DOMAIN dbMapping : h \in StatusSet(dbCommits, "done")

\* C28: a failing force push or garbage collection is not propagated and
\* rolls nothing back: the step of _finalize_rewrite leaves refs, HEAD,
\* statuses and mappings as they are and the run goes on to verification
C28_FinalizeFailureIsNotFatal ==
  [][(pc = "finalize" /\ pc' # "crashed") =>
       /\ pc' = "verify"
       /\ refs' = refs
       /\ head' = head
       /\ dbCommits' = dbCommits
       /\ dbMapping' = dbMapping
       /\ dbSession' = dbSession]_vars

\* an apply run reached verification although its push did not go through:
\* the remote still lacks the rewritten tip, which the branch points at
C28_Witness ==
  /\ pc = "verify"
  /\ ~dryRun
  /\ remote # None
  /\ remote # refs[head]
  /\ head = Main
  /\ start.taken
  /\ refs[Main] # start.refs[Main]
  /\ DOMAIN dbMapping # {}

\* C29: the replay loop takes the commits one at a time in ascending
\* commit_date order over all commits of all groups: when commit idx is
\* taken, exactly the commits before it in date order have been taken, in
\* that order, and a successful replay puts one new commit on the scratch
\* ref whose parent is the tip the previous step left
C29_ReplayInDateOrderOnScratchTip ==
  [][(pc = "replay" /\ pc' # "crashed") =>
       /\ head = tempBranch
       /\ Range(Hashes(Flatten(groups))) \subseteq Range(Hashes(sortedCommits))
       /\ Len(attempted) = idx - 1
       /\ \A i \in 1..(idx - 1) :
            /\ attempted[i] = sortedCommits[i].hash
            /\ sortedCommits[i].commit_date <= sortedCommits[idx].commit_date
       /\ attempted' = Append(attempted, sortedCommits[idx].hash)
       /\ objects' # objects =>
            /\ head' = head
            /\ DOMAIN objects' = DOMAIN objects \cup {refs'[head]}
            /\ refs'[head] \notin DOMAIN objects
            /\ objects'[refs'[head]].parent = refs[head]]_vars

\* both commits were replayed, the later-created one first because its
\* commit_date is smaller, and the second replay sits on top of the first
C29_Witness ==
  /\ pc = "swap"
  /\ ~dryRun
  /\ Len(sortedCommits) = 2
  /\ sortedCommits[1].commit_date < sortedCommits[2].commit_date
  /\ sortedCommits[1].hash > sortedCommits[2].hash
  /\ {sortedCommits[1].hash, sortedCommits[2].hash} \subseteq DOMAIN replayedAs
  /\ objects[replayedAs[sortedCommits[2].hash]].parent = replayedAs[sortedCommits[1].hash]
  /\ refs[head] = replayedAs[sortedCommits[2].hash]

\* ------------------------------------ one call of _calculate_diff_similarity
\* the arguments range over every pair of diffs and every pair of
\* modified_files strings of the universe, the empty diff, the empty list
\* and a string json.loads rejects included
InitSimilarity ==
  /\ simArgs \in DiffNames \X DiffNames \X FileNames \X FileNames
  /\ pathSim = Zero
  /\ diffSim = Zero
  /\ similarity = Zero
  /\ pc = "sim_call"
  /\ InitIdleAi
  /\ errors = << >>
  /\ commits = << >>
  /\ dryRun = TRUE
  /\ dbMapping = EmptyFn
  /\ maxGroupSize = DefaultMaxGroupSize
  /\ dbGroups = {}
  /\ dbCommits = << >>
  /\ dbSession = NoSession
  /\ objects = EmptyFn
  /\ refs = EmptyFn
  /\ head = Main
  /\ autoCreate = TRUE
  /\ checkRemoteSync = FALSE
  /\ dirty = FALSE
  /\ remote = None
  /\ disableMerging = FALSE
  /\ runs = 0
  /\ path = "none"
  /\ currentState = NoSession
  /\ backupBranch = NoRef
  /\ found = << >>
  /\ groups = << >>
  /\ commitMessages = << >>
  /\ currentBranch = NoRef
  /\ tempBranch = NoRef
  /\ sortedCommits = << >>
  /\ idx = 0
  /\ start = NoStart
  /\ attempted = << >>
  /\ skipped = {}
  /\ replayedAs = EmptyFn
  /\ conflicts = 0

\* CommitClusterer._calculate_diff_similarity(diff1, diff2, files1_str, files2_str)
CalculateDiffSimilarity ==
  /\ pc = "sim_call"
  /\ pathSim' = calculate_path_similarity(safe_json_loads(simArgs[3]), safe_json_loads(simArgs[4]))
  /\ diffSim' = calculate_diff_content_similarity(DiffLines(simArgs[1]), DiffLines(simArgs[2]))
  /\ similarity' = calculate_diff_similarity(simArgs[1], simArgs[2], simArgs[3], simArgs[4])
  /\ pc' = "sim_done"
  /\ UNCHANGED <<gitVars, treeVars, dbVars, cfgVars, aiVars, diagVars, simArgs, dryRun, runs, path,
                 localVars, histVars>>

NextSimilarity == CalculateDiffSimilarity

SpecSimilarity == InitSimilarity /\ [][NextSimilarity]_vars

\* C30: for identical diffs and identical file lists, the empty diff and an
\* empty or unparsable file list included, the similarity is exactly 1
C30_IdenticalInputsScoreOne ==
  (pc = "sim_done" /\ simArgs[1] = simArgs[2] /\ simArgs[3] = simArgs[4]) =>
    similarity.n = similarity.d

SimDone == pc = "sim_done"
Files1 == safe_json_loads(simArgs[3])
Files2 == safe_json_loads(simArgs[4])
Diff1 == DiffLines(simArgs[1])
Diff2 == DiffLines(simArgs[2])
IsOne(s) == s.n = s.d
IsZero(s) == s.n = 0

\* C31: the path score and the diff score each are 1 when both of their
\* inputs are empty and 0 when exactly one of them is empty
C31_EmptinessTreatedAlike ==
  SimDone =>
    /\ (Files1 = << >> /\ Files2 = << >>) => IsOne(pathSim)
    /\ ((Files1 = << >>) # (Files2 = << >>)) => IsZero(pathSim)
    /\ (Diff1 = << >> /\ Diff2 = << >>) => IsOne(diffSim)
    /\ ((Diff1 = << >>) # (Diff2 = << >>)) => IsZero(diffSim)

SameScore(a, b) == a.n * b.d = b.n * a.d

\* C32: the similarity of (a, b, pa, pb) equals the similarity of
\* (b, a, pb, pa), and so do the two sub-scores
C32_SimilarityIsSymmetric ==
  SimDone =>
    /\ SameScore(similarity,
                 calculate_diff_similarity(simArgs[2], simArgs[1], simArgs[4], simArgs[3]))
    /\ SameScore(pathSim, calculate_path_similarity(Files2, Files1))
    /\ SameScore(diffSim, calculate_diff_content_similarity(Diff2, Diff1))

\* a call on two different diffs and two different file lists of different
\* sizes whose score is strictly between 0 and 1
C32_Witness ==
  /\ SimDone
  /\ simArgs[1] # simArgs[2]
  /\ Cardinality({dirname(p) : p \in Range(Files1)}) <
       Cardinality({dirname(p) : p \in Range(Files2)})
  /\ ~IsZero(pathSim) /\ ~IsOne(pathSim)
  /\ ~IsZero(diffSim) /\ ~IsOne(diffSim)
  /\ ~IsZero(similarity) /\ ~IsOne(similarity)

\* C33: validate_groups, called with the same hash mapping and
\* max_group_size on the groups a clustering pass has just found, returns no
\* error; and whatever it returns, the call alters neither the groups found
\* nor the commit_groups table and ends normally
C33_FoundGroupsValidate ==
  [][(pc' = "validated" /\ pc # "validated") =>
       /\ groups' = found => errors' = << >>
       /\ groups' \in ValidateInputs
       /\ found' = found
       /\ dbGroups' = dbGroups]_vars

\* validation has passed groups one of which has two members that are
\* continuous only through the hash mapping
C33_Witness ==
  /\ pc = "validated"
  /\ groups = found
  /\ errors = << >>
  /\ \E g \in 1..Len(found) :
       /\ Len(found[g]) >= 2
       /\ found[g][1].hash \in DOMAIN dbMapping

\* an apply run is under way in the state the step leads to
ApplyRunStep == start'.taken /\ ~dryRun' /\ path' \in {"fresh", "resume"} /\ pc \in Running

\* C34: in an apply run the branch being rewritten moves only in the swap
\* step, which comes after every commit has been attempted, and once it has
\* moved the scratch ref no longer exists; every other step, failing or
\* not, leaves it at its pre-run tip
C34_BranchMovesOnlyAtSwap ==
  [][ApplyRunStep =>
       /\ pc # "swap" =>
            /\ refs'[Main] = refs[Main]
            /\ refs'[start.head] = refs[start.head]
            /\ refs[start.head] = start.refs[start.head] \/ pc \in AfterSwap
       /\ (pc = "swap" /\ refs'[start.head] # refs[start.head]) =>
            /\ Hashes(sortedCommits) = attempted
            /\ tempBranch \notin DOMAIN refs']_vars

\* the phase a position of a run belongs to: 1 backup, 2 scan, 3 clustering
\* and session set-up, 4 replay, 5 finalization, 6 verification, 7 finished
PhaseOf(p) ==
  CASE p = "backup" -> 1
    [] p = "scan" -> 2
    [] p \in {"cluster", "session"} -> 3
    [] p \in {"rewrite", "checkout", "replay", "swap"} -> 4
    [] p \in {"update", "update_map", "finalize"} -> 5
    [] p = "verify" -> 6
    [] p = "done" -> 7
    [] OTHER -> 0

\* C35: a fresh start goes through backup, scan, clustering, replay,
\* finalization and verification in this order: a step stays in its phase
\* or enters the next one, a dry run goes from replay straight to
\* verification and never finalizes, an apply run never skips finalization,
\* and replay starts only with the groups of the commits just scanned
C35_FreshStartPhaseOrder ==
  [][(path' = "fresh" /\ PhaseOf(pc') > 0) =>
       /\ \/ pc \in Ended /\ pc' = "backup"
          \/ PhaseOf(pc) > 0 /\ PhaseOf(pc') = PhaseOf(pc)
          \/ PhaseOf(pc) > 0 /\ PhaseOf(pc') = PhaseOf(pc) + 1 /\ ~(dryRun /\ PhaseOf(pc') = 5)
          \/ dryRun /\ PhaseOf(pc) = 4 /\ PhaseOf(pc') = 6
       /\ PhaseOf(pc') = 5 => ~dryRun'
       /\ PhaseOf(pc') >= 4 =>
            /\ commits' = scan_list(objects, start'.refs[Main])
            /\ Range(Hashes(Flatten(groups'))) = Range(Hashes(commits'))
            /\ currentState'.exists]_vars

\* an apply run and a dry run, both fresh starts, have reached their end
C35_Witness ==
  /\ pc = "done" /\ path = "fresh"
  /\ runs = 2 /\ dryRun
  /\ start.done # {}

\* a step of rollback whose start-up checks cannot fail: the tree is clean
\* and the remote is not consulted, so the outcome is reset_to_branch's
ResetToBranchStep ==
  /\ pc \in Ended /\ pc' \in {"rolled_back", "rollback_failed"}
  /\ path' = "rollback"
  /\ ~dirty /\ ~checkRemoteSync

\* C36: reset_to_branch with a name that resolves to no ref reports failure
\* and leaves every ref, HEAD and the working tree as they were; with an
\* existing ref it reports success and the checked-out branch is at that ref
C36_ResetToBranchReportsMissingRef ==
  [][ResetToBranchStep =>
       IF backupBranch' \in DOMAIN refs
         THEN /\ pc' = "rolled_back"
              /\ refs'[head] = refs[backupBranch']
         ELSE /\ pc' = "rollback_failed"
              /\ refs' = refs /\ head' = head /\ dirty' = dirty]_vars

\* a rollback to a backup name no run has created has failed while another
\* backup exists
C36_Witness ==
  /\ pc = "rollback_failed" /\ path = "rollback"
  /\ ~dirty /\ ~checkRemoteSync
  /\ backupBranch \in BackupNames \ DOMAIN refs
  /\ \E b \in BackupNames : b \in DOMAIN refs

\* C37: when the replay loop of an apply run is over, the commits it has
\* attempted on the scratch ref are exactly the commits scanned in this run,
\* whatever rows the commits table held before the run
C37_ReplayedAreTheScanned ==
  (start.taken /\ ~dryRun /\ pc \in {"swap"} \cup AfterSwap) =>
    Range(attempted) = Range(Hashes(commits))

\* every commit of the sequence of hashes comes after its parent, when the
\* parent is in the sequence too
ParentsFirst(hs) ==
  \A i, j \in 1..Len(hs) : objects[hs[i]].parent = hs[j] => j < i

\* C38: whatever the commit dates of a linear history are, the order in
\* which the commits are clustered and the order in which they are replayed
\* both place every commit after its parent
C38_OrdersFollowParents ==
  start.taken =>
    /\ ParentsFirst(Hashes(Flatten(groups)))
    /\ ParentsFirst(attempted)

\* the counters of a session are within their range
CountersInRange(s) ==
  s.exists => (0 <= s.processed_commits /\ s.processed_commits <= s.total_commits)

SessionCountersInRange == CountersInRange(dbSession) /\ CountersInRange(currentState)

\* C39: whenever a session exists its processed_commits lies between 0 and
\* its total_commits, and when an apply run has completed processed_commits
\* is the number of rows of the commits table with status done
C39_ProcessedCountsDone ==
  /\ SessionCountersInRange
  /\ (ApplyDone /\ dbSession.exists) =>
       dbSession.processed_commits = Cardinality(StatusSet(dbCommits, "done"))

\* --------------------------------------------------------------- SpecState
\* The operations of StateManager called in any order on one state store.
\* currentState is the cache _current_state (NoSession for None), dbSession
\* the session_state row (NoSession when the table is empty); pc names the
\* operation called last and errors holds the exception it raised, if any.
MaxTotal == 2        \* largest commit counter passed to an operation

StateOpNames == {"get_current_state", "initialize_session", "save_checkpoint",
                 "update_session", "clear_session", "reset_to_initial_state",
                 "import_state"}
StatePcs == {"state_idle"} \cup StateOpNames

\* everything the StateManager operations leave alone
stateIdleVars == <<gitVars, treeVars, cfgVars, aiVars, simVars, dryRun, runs, path,
                   backupBranch, commits, found, groups, commitMessages, currentBranch,
                   tempBranch, sortedCommits, idx, histVars>>

Raised(name) == <<[group |-> 0, kind |-> name]>>

\* DatabaseManager.save_session_state: INSERT OR REPLACE of row 1; the column
\* branch is NOT NULL, so a state whose branch is None raises IntegrityError
save_session_state(row, state) ==
  IF state.branch = NoRef THEN [ok |-> FALSE, row |-> row]
  ELSE [ok |-> TRUE, row |-> [state EXCEPT !.exists = TRUE]]

\* StateManager.initialize_session: the row is saved, then the cache is set
initialize_session(cache, row, branch, backup_branch, total_commits) ==
  LET state == [exists |-> TRUE, branch |-> branch, backup_branch |-> backup_branch,
                current_position |-> None, total_commits |-> total_commits,
                processed_commits |-> 0]
      saved == save_session_state(row, state)
  IN IF saved.ok THEN [ok |-> TRUE, cache |-> state, row |-> saved.row]
     ELSE [ok |-> FALSE, cache |-> cache, row |-> row]

\* StateManager.save_checkpoint: get_current_state() loads the cache, the
\* cached dict is changed in place, then saved
save_checkpoint(cache, row, position, processed_count) ==
  LET current_state == get_current_state(cache, row)
  IN IF ~current_state.exists THEN [ok |-> TRUE, cache |-> current_state, row |-> row]
     ELSE LET updated == [current_state EXCEPT !.current_position = position,
                                               !.processed_commits = processed_count]
              saved == save_session_state(row, updated)
          IN [ok |-> saved.ok, cache |-> updated, row |-> saved.row]

\* StateManager.update_session(key=value): current_state.update(kwargs) on
\* the cached dict, then saved
update_session(cache, row, key, value) ==
  LET current_state == get_current_state(cache, row)
  IN IF ~current_state.exists THEN [ok |-> TRUE, cache |-> current_state, row |-> row]
     ELSE LET updated == [current_state EXCEPT ![key] = value]
              saved == save_session_state(row, updated)
          IN [ok |-> saved.ok, cache |-> updated, row |-> saved.row]

\* the loop of import_state over commit_groups: save_commit_group(i, group,
\* [commit.get('similarity', 1.0) for commit in group])
RECURSIVE ImportGroupsFrom(_, _, _)
ImportGroupsFrom(table, gs, i) ==
  IF i > Len(gs) THEN [ok |-> TRUE, table |-> table]
  ELSE LET r == save_commit_group(table, i - 1, gs[i], [k \in 1..Len(gs[i]) |-> One])
       IN IF r.ok THEN ImportGroupsFrom(r.table, gs, i + 1)
          ELSE [ok |-> FALSE, table |-> r.table]

\* the mappings loop of import_state
import_mappings(m, new) == [h \in DOMAIN m \cup DOMAIN new |-> IF h \in DOMAIN new THEN new[h] ELSE m[h]]

\* StateManager.import_state(state_data): the session row, the mappings, the
\* groups, and as its last statement the reset of the cache; state_data is
\* [has_session, session_state, mappings, commit_groups], a session_state
\* of NoSession being the None that export_state writes for a store
\* without session
import_state(cache, row, mapping, table, state_data) ==
  LET unchanged == [ok |-> FALSE, cache |-> cache, row |-> row, mapping |-> mapping,
                    table |-> table]
      saved == IF state_data.has_session
                 THEN IF ~state_data.session_state.exists
                        THEN [ok |-> FALSE, row |-> row]     \* None.get: AttributeError
                        ELSE save_session_state(row, state_data.session_state)
                 ELSE [ok |-> TRUE, row |-> row]
      mapped == import_mappings(mapping, state_data.mappings)
      imported == ImportGroupsFrom(table, state_data.commit_groups, 1)
  IN IF ~saved.ok THEN unchanged
     ELSE IF ~imported.ok
       THEN [ok |-> FALSE, cache |-> cache, row |-> saved.row, mapping |-> mapped,
             table |-> imported.table]
     ELSE [ok |-> TRUE, cache |-> NoSession, row |-> saved.row, mapping |-> mapped,
           table |-> imported.table]

StateCommit(h) == CommitRecord(h, h - 1, "dA", "fSrc", h, "pending")

\* the dicts passed to import_state
StateData ==
  [has_session : BOOLEAN,
   session_state : {NoSession,
                    [exists |-> TRUE, branch |-> Main, backup_branch |-> BackupRef(1),
                     current_position |-> 1, total_commits |-> MaxTotal,
                     processed_commits |-> 1]},
   mappings : {EmptyFn, [h \in {1} |-> 2]},
   commit_groups : {<< >>, << <<StateCommit(1)>>, <<StateCommit(2)>> >>,
                    << <<StateCommit(1), StateCommit(2)>> >>}]

\* a state store with two commits, one of them done, and no session
InitState ==
  /\ pc = "state_idle"
  /\ dbCommits = <<[StateCommit(1) EXCEPT !.status = "done"], StateCommit(2)>>
  /\ dbMapping = EmptyFn
  /\ dbGroups = {}
  /\ dbSession = NoSession
  /\ InitIdleLocals
  /\ commits = << >>
  /\ dryRun = FALSE
  /\ maxGroupSize = DefaultMaxGroupSize
  /\ objects = EmptyFn
  /\ refs = EmptyFn
  /\ head = Main
  /\ autoCreate = TRUE
  /\ checkRemoteSync = FALSE
  /\ dirty = FALSE
  /\ remote = None
  /\ disableMerging = FALSE
  /\ runs = 0
  /\ path = "none"

\* the common part of a StateManager call
StateCall(name, r) ==
  /\ pc \in StatePcs
  /\ pc' = name
  /\ currentState' = r.cache
  /\ dbSession' = r.row
  /\ errors' = IF r.ok THEN << >> ELSE Raised(name)
  /\ UNCHANGED stateIdleVars

CallGetCurrentState ==
  /\ StateCall("get_current_state",
               [ok |-> TRUE, cache |-> get_current_state(currentState, dbSession),
                row |-> dbSession])
  /\ UNCHANGED <<dbCommits, dbMapping, dbGroups>>

CallInitializeSession ==
  /\ \E branch \in {Main, NoRef}, backup_branch \in {NoRef, BackupRef(1)},
        total_commits \in 0..MaxTotal :
       StateCall("initialize_session",
                 initialize_session(currentState, dbSession, branch, backup_branch,
                                    total_commits))
  /\ UNCHANGED <<dbCommits, dbMapping, dbGroups>>

CallSaveCheckpoint ==
  /\ \E position \in 1..2, processed_count \in 0..MaxTotal :
       StateCall("save_checkpoint",
                 save_checkpoint(currentState, dbSession, position, processed_count))
  /\ UNCHANGED <<dbCommits, dbMapping, dbGroups>>

CallUpdateSession ==
  /\ \/ \E n \in 0..MaxTotal :
          StateCall("update_session",
                    update_session(currentState, dbSession, "processed_commits", n))
     \/ \E b \in {Main, NoRef} :
          StateCall("update_session", update_session(currentState, dbSession, "branch", b))
  /\ UNCHANGED <<dbCommits, dbMapping, dbGroups>>

\* StateManager.clear_session: DELETE FROM session_state, cache = None
CallClearSession ==
  /\ StateCall("clear_session", [ok |-> TRUE, cache |-> NoSession, row |-> NoSession])
  /\ UNCHANGED <<dbCommits, dbMapping, dbGroups>>

\* StateManager.reset_to_initial_state: every commit pending, the mapping and
\* group tables emptied, clear_session()
CallResetToInitialState ==
  /\ StateCall("reset_to_initial_state",
               [ok |-> TRUE, cache |-> NoSession, row |-> NoSession])
  /\ dbCommits' = [i \in 1..Len(dbCommits) |-> [dbCommits[i] EXCEPT !.status = "pending"]]
  /\ dbMapping' = EmptyFn
  /\ dbGroups' = {}

CallImportState ==
  \E state_data \in StateData :
    LET r == import_state(currentState, dbSession, dbMapping, dbGroups, state_data)
    IN /\ StateCall("import_state", r)
       /\ dbMapping' = r.mapping
       /\ dbGroups' = r.table
       /\ UNCHANGED dbCommits

NextState ==
  \/ CallGetCurrentState
  \/ CallInitializeSession
  \/ CallSaveCheckpoint
  \/ CallUpdateSession
  \/ CallClearSession
  \/ CallResetToInitialState
  \/ CallImportState

SpecState == InitState /\ [][NextState]_vars

\* the session get_current_state returns is the persisted row, field by
\* field, and there is none exactly when there is no row
CacheAgreesWithStore == get_current_state(currentState, dbSession) = dbSession

\* save_checkpoint and update_session called on a store without session
\* leave the store as it is
NoSessionCallsChangeNothing ==
  [][(pc' \in {"save_checkpoint", "update_session"} /\ ~dbSession.exists) =>
       (dbVars' = dbVars /\ ~currentState'.exists)]_vars

\* C40: after any sequence of StateManager operations the session that
\* get_current_state returns agrees with the persisted session row on
\* every field and is absent exactly when the row is; save_checkpoint and
\* update_session on a store without session leave the store unchanged
C40_CacheRefinesStore ==
  /\ [](pc \in StatePcs => CacheAgreesWithStore)
  /\ NoSessionCallsChangeNothing

====
